---- MODULE Spec2Model ----
(***************************************************************************)
(* Model of the resume/ATS scoring engine of the career toolkit:           *)
(*   ComprehensiveCareerToolkit (career_toolkit.py) and                    *)
(*   ProductionCareerToolkit   (production_career_toolkit.py).             *)
(*                                                                         *)
(* Text.  A document is a sequence of lexemes; neighbouring lexemes are    *)
(* separated by one blank in the string it stands for.  A lexeme is a      *)
(* word, a run of whitespace or a run of punctuation.  <<>> is "".         *)
(*                                                                         *)
(* Numbers.  Python floats are modelled in exact fixed point:              *)
(*   a percentage p is the integer floor(100 * p)  (hundredths),           *)
(*   the composite ATS score is kept in thousandths, where                 *)
(*   0.6 * tfidf + 0.4 * keyword is exact.                                 *)
(* TF-IDF weights are compared through their squares, which are rational.  *)
(* A similarity is a record: pct, its value in hundredths, and above, which *)
(* says whether the float64 value exceeds 100.0; where the exact cosine is *)
(* 1 the float64 roundings of the computation are carried out bit by bit.  *)
(***************************************************************************)
EXTENDS Integers, Sequences, FiniteSets, TLC

VARIABLES
    file_state,       \* the uploaded resume_file: "none", "ok" or "unreadable"
    page_text,        \* the text pdfplumber extracts from the file's page
    job_description,  \* the job description typed by the user
    analysis,         \* the analysis record handed to calculate_resume_score
    result,           \* what the last call returned (or raised)
    toolkit,          \* the fields of the module-level toolkit instances
    calls,            \* per request thread: the frame of its call in progress
    db_manager,       \* database_manager.db_manager: None or the instance
    current_user_id,  \* database_interface.current_user_id
    db,               \* the committed rows of the database's tables
    api               \* the frame of query_huggingface_api

vars ==
    <<file_state, page_text, job_description, analysis, result, toolkit, calls,
      db_manager, current_user_id, db, api>>

(***************************************************************************)
(* Lexicon                                                                 *)
(***************************************************************************)
Whitespace == {" ", "\n"}
Punctuation == {"--"}
\* words a tokenizer treats specially because of their characters
SingleChar == {"c"}
TwoLetter == {"go", "of"}
AlphaNumeric == {"k8s"}

\* str.lower()
Lower(w) ==
    CASE w = "Python" -> "python"
      [] w = "SQL" -> "sql"
      [] w = "AWS" -> "aws"
      [] w = "Docker" -> "docker"
      [] w = "Experienced" -> "experienced"
      [] w = "The" -> "the"
      [] OTHER -> w

\* the members of sklearn's ENGLISH_STOP_WORDS that occur in the lexicon
EnglishStopWords == {"the", "and", "with", "of", "about", "will"}

\* common_words of calculate_keyword_match
common_words ==
    {"the", "and", "or", "but", "in", "on", "at", "to", "for", "of", "with",
     "by", "this", "that", "these", "those", "will", "have", "has", "had",
     "can", "could", "should", "would", "may", "might", "must"}

\* the lower-case words of the lexicon in string order (sorted(vocabulary))
LexOrder ==
    <<"about", "agile", "and", "aws", "azure", "bash", "c", "css", "docker",
      "experienced", "git", "go", "html", "java", "k8s", "kafka", "linux",
      "node", "of", "perl", "projects", "python", "react", "redis", "ruby",
      "rust", "scala", "spark", "sql", "swift", "the", "will", "with">>

Rank(t) == CHOOSE i \in 1..Len(LexOrder) : LexOrder[i] = t

IsWord(w) == w \notin Whitespace /\ w \notin Punctuation

(***************************************************************************)
(* Tokenizers                                                              *)
(***************************************************************************)
RECURSIVE MapLower(_)
MapLower(doc) ==
    IF doc = <<>> THEN <<>> ELSE <<Lower(Head(doc))>> \o MapLower(Tail(doc))

\* token_pattern r"(?u)\b\w\w+\b": runs of two or more word characters
MatchesTokenPattern(w) == IsWord(w) /\ w \notin SingleChar

\* re.findall(r'\b[A-Za-z]{3,}\b', text.lower()), as a set
MatchesAlpha3(w) ==
    IsWord(w) /\ w \notin SingleChar /\ w \notin TwoLetter /\ w \notin AlphaNumeric

AlphaTokens(doc) ==
    LET low == MapLower(doc)
    IN  {low[i] : i \in {j \in 1..Len(low) : MatchesAlpha3(low[j])}}

\* TfidfVectorizer's analyzer up to the n-grams: lowercase, tokenize,
\* drop the English stop words
NotStopToken(w) == MatchesTokenPattern(w) /\ w \notin EnglishStopWords

AnalyzerTokens(doc) == SelectSeq(MapLower(doc), NotStopToken)

\* as NGrams with ngram_range=(1, 1)
NGrams_Unigrams(toks) == {<<toks[i]>> : i \in 1..Len(toks)}

\* ngram_range=(1, 2): the unigrams and the bigrams of the token list
NGrams(toks) ==
    {<<toks[i]>> : i \in 1..Len(toks)}
      \cup {<<toks[i], toks[i + 1]>> : i \in 1..(Len(toks) - 1)}

Features(doc) == NGrams(AnalyzerTokens(doc))

\* a function as a table of its values
Table(f) == f @@ [x \in {} |-> 0]

\* the number of occurrences of each n-gram in the document (a row of the
\* count matrix)
TermCounts(doc) ==
    LET toks == AnalyzerTokens(doc)
    IN  Table([f \in NGrams(toks) |->
                 Cardinality({i \in 1..(Len(toks) - Len(f) + 1) :
                                 SubSeq(toks, i, i + Len(f) - 1) = f})])

\* feature_names order: the n-grams as strings, sorted
FeatLess(f, g) ==
    \/ Rank(f[1]) < Rank(g[1])
    \/ /\ f[1] = g[1]
       /\ \/ Len(f) < Len(g)
          \/ Len(f) = 2 /\ Len(g) = 2 /\ Rank(f[2]) < Rank(g[2])

\* the sum of f over the finite set S
RECURSIVE SumOver(_, _)
SumOver(S, f) ==
    IF S = {} THEN 0
    ELSE LET x == CHOOSE y \in S : TRUE
         IN  f[x] + SumOver(S \ {x}, f)

SumFn(f) == SumOver(DOMAIN f, f)

\* str.strip() == "" ; and the truth value of a string
IsBlank(doc) == \A i \in 1..Len(doc) : doc[i] \in Whitespace
IsEmptyString(doc) == doc = <<>>

(***************************************************************************)
(* Fixed-point arithmetic                                                  *)
(***************************************************************************)
Min(a, b) == IF a <= b THEN a ELSE b
Max(a, b) == IF a >= b THEN a ELSE b

\* a/b <= c/d for naturals a, c and positive b, d, without forming a*d
RECURSIVE FracLeq(_, _, _, _)
FracLeq(a, b, c, d) ==
    LET qa == a \div b
        qc == c \div d
        ra == a % b
        rc == c % d
    IN  IF qa # qc THEN qa < qc
        ELSE IF ra = 0 THEN TRUE
        ELSE IF rc = 0 THEN FALSE
        ELSE FracLeq(d, rc, b, ra)

\* the largest p in lo..hi with p / B <= (B / D) / p, i.e. p <= B / sqrt(D)
RECURSIVE LargestRoot(_, _, _, _)
LargestRoot(lo, hi, B, D) ==
    IF lo = hi THEN lo
    ELSE LET mid == (lo + hi + 1) \div 2
         IN  IF FracLeq(mid * mid, B, B, D)
             THEN LargestRoot(mid, hi, B, D)
             ELSE LargestRoot(lo, mid - 1, B, D)

\* floor(100 * (num / den) * 100): a ratio as a percentage, in hundredths
PercentOf(num, den) == (num * 100 * 100) \div den

(***************************************************************************)
(* float64 arithmetic: the products, sums, quotients and square roots of   *)
(* the l2 normalisation and of the sparse matrix product, rounded the way  *)
(* IEEE-754 binary64 rounds them.  Natural numbers of any size are kept as *)
(* limbs in base 2^14, least significant first, without a leading zero     *)
(* limb; a float is m * 2^e.                                               *)
(***************************************************************************)
LimbBits == 14
LimbBase == 16384

Pow2Table ==
    <<1, 2, 4, 8, 16, 32, 64, 128, 256, 512, 1024, 2048, 4096, 8192, 16384>>

\* 2^n for n in 0..14
Pow2(n) == Pow2Table[n + 1]

RECURSIVE Trim(_)
Trim(a) ==
    IF a = <<>> THEN a
    ELSE IF a[Len(a)] = 0 THEN Trim(SubSeq(a, 1, Len(a) - 1)) ELSE a

\* the limbs of the number whose limb i is a[i], plus c
RECURSIVE Carry(_, _)
Carry(a, c) ==
    IF a = <<>> THEN (IF c = 0 THEN <<>> ELSE <<c % LimbBase>> \o Carry(a, c \div LimbBase))
    ELSE LET v == a[1] + c
         IN  <<v % LimbBase>> \o Carry(Tail(a), v \div LimbBase)

Limb(a, i) == IF i <= Len(a) THEN a[i] ELSE 0

BigOfInt(n) == Carry(<<>>, n)

BigAdd(a, b) ==
    LET n == IF Len(a) >= Len(b) THEN Len(a) ELSE Len(b)
    IN  Carry([i \in 1..n |-> Limb(a, i) + Limb(b, i)], 0)

\* k * a + c for small k and c
BigScale(a, k, c) == Carry([i \in 1..Len(a) |-> k * a[i]], c)

RECURSIVE Borrow(_, _, _, _)
Borrow(a, b, i, br) ==
    IF i > Len(a) THEN <<>>
    ELSE LET v == a[i] - Limb(b, i) - br
         IN  IF v < 0 THEN <<v + LimbBase>> \o Borrow(a, b, i + 1, 1)
             ELSE <<v>> \o Borrow(a, b, i + 1, 0)

\* a - b for a >= b
BigSub(a, b) == Trim(Borrow(a, b, 1, 0))

RECURSIVE CmpFrom(_, _, _)
CmpFrom(a, b, i) ==
    IF i = 0 THEN 0
    ELSE IF a[i] < b[i] THEN -1
    ELSE IF a[i] > b[i] THEN 1
    ELSE CmpFrom(a, b, i - 1)

\* -1, 0, 1 as a < b, a = b, a > b
BigCmp(a, b) ==
    IF Len(a) < Len(b) THEN -1
    ELSE IF Len(a) > Len(b) THEN 1
    ELSE CmpFrom(a, b, Len(a))

RECURSIVE ConvSum(_, _, _, _)
ConvSum(a, b, k, i) ==
    IF i > Len(a) \/ i > k THEN 0
    ELSE (IF k - i + 1 <= Len(b) THEN a[i] * b[k - i + 1] ELSE 0)
           + ConvSum(a, b, k, i + 1)

\* a * b for operands of at most 7 limbs
BigMul(a, b) ==
    IF a = <<>> \/ b = <<>> THEN <<>>
    ELSE Trim(Carry([k \in 1..(Len(a) + Len(b) - 1) |-> ConvSum(a, b, k, 1)], 0))

\* a * 2^n
Shl(a, n) ==
    IF a = <<>> THEN a
    ELSE [i \in 1..(n \div LimbBits) |-> 0] \o BigScale(a, Pow2(n % LimbBits), 0)

\* a \div 2^n
Shr(a, n) ==
    LET q == n \div LimbBits
        p == Pow2(n % LimbBits)
        up == Pow2(LimbBits - (n % LimbBits))
    IN  IF q >= Len(a) THEN <<>>
        ELSE Trim([i \in 1..(Len(a) - q) |->
                     (a[i + q] \div p) + (Limb(a, i + q + 1) % p) * up])

RECURSIVE SmallBits(_)
SmallBits(n) == IF n = 0 THEN 0 ELSE 1 + SmallBits(n \div 2)

BitLen(a) == IF a = <<>> THEN 0 ELSE (Len(a) - 1) * LimbBits + SmallBits(a[Len(a)])

IsOdd(a) == a # <<>> /\ a[1] % 2 = 1

\* one step of restoring division by d: the next quotient bit, for a
\* remainder below d
DivStep(d, qr) ==
    LET r2 == BigScale(qr[2], 2, 0)
    IN  IF BigCmp(r2, d) >= 0
        THEN <<BigScale(qr[1], 2, 1), BigSub(r2, d)>>
        ELSE <<BigScale(qr[1], 2, 0), r2>>

\* n steps, the first half before the second
RECURSIVE DivSteps(_, _, _)
DivSteps(d, n, qr) ==
    IF n = 0 THEN qr
    ELSE IF qr[2] = <<>> THEN <<Shl(qr[1], n), qr[2]>>
    ELSE IF n = 1 THEN DivStep(d, qr)
    ELSE LET half == DivSteps(d, n \div 2, qr)
         IN  IF half = half THEN DivSteps(d, n - n \div 2, half) ELSE half

\* two bits of n at the even position 2 * j
BitPair(n, j) == (Limb(n, (2 * j) \div LimbBits + 1) \div Pow2((2 * j) % LimbBits)) % 4

\* one step of the digit-by-digit square root of n: bit pair j - 1 is
\* brought down
SqrtStep(n, j, sr) ==
    LET r2 == BigScale(sr[2], 4, BitPair(n, j - 1))
        trial == BigScale(sr[1], 4, 1)
    IN  IF BigCmp(r2, trial) >= 0
        THEN <<BigScale(sr[1], 2, 1), BigSub(r2, trial)>>
        ELSE <<BigScale(sr[1], 2, 0), r2>>

\* cnt steps from bit pair j - 1 downwards, the first half before the
\* second; the low `zeros` bits of n are 0
RECURSIVE SqrtSteps(_, _, _, _, _)
SqrtSteps(n, zeros, j, cnt, sr) ==
    IF cnt = 0 THEN sr
    ELSE IF sr[2] = <<>> /\ 2 * j <= zeros THEN <<Shl(sr[1], cnt), sr[2]>>
    ELSE IF cnt = 1 THEN SqrtStep(n, j, sr)
    ELSE LET h == cnt \div 2
             half == SqrtSteps(n, zeros, j, h, sr)
         IN  IF half = half THEN SqrtSteps(n, zeros, j - h, cnt - h, half)
             ELSE half

\* IEEE-754 binary64 values m * 2^e with m of at most 53 bits (no range
\* checks: the values here lie between 2^-10 and 2^10)
MantissaBits == 53

\* extra quotient and root bits computed before rounding
GuardBits == 4 * LimbBits

\* round to nearest, ties to even
\* q rounded up when the bits dropped are more than half a unit of q (c > 0),
\* or half a unit and q is odd
RoundUp(q, e, c) ==
    [m |-> IF c > 0 \/ (c = 0 /\ IsOdd(q)) THEN BigScale(q, 1, 1) ELSE q,
     e |-> e]

RoundQuotient(n, e, d, q) ==
    RoundUp(q, e, BigCmp(BigScale(BigSub(n, Shl(q, d)), 2, 0), Shl(<<1>>, d)))

RoundAt(n, e, d) ==
    IF d <= 0 THEN [m |-> n, e |-> e]
    ELSE RoundQuotient(n, e + d, d, Shr(n, d))

\* n * 2^e rounded to 53 significant bits, to nearest, ties to even
RoundF(n, e) == RoundAt(n, e, BitLen(n) - MantissaBits)

FloatOfInt(n) == [m |-> BigOfInt(n), e |-> 0]

FZero == FloatOfInt(0)

FMul(a, b) == RoundF(BigMul(a.m, b.m), a.e + b.e)

FAdd(a, b) ==
    IF a.m = <<>> THEN b
    ELSE IF b.m = <<>> THEN a
    ELSE LET e == IF a.e <= b.e THEN a.e ELSE b.e
         IN  RoundF(BigAdd(Shl(a.m, a.e - e), Shl(b.m, b.e - e)), e)

\* rounds a quotient or root computed to GuardBits bits; a remainder that
\* is left sets a sticky bit below them
FQuotient(qr, e) ==
    RoundF(BigScale(qr[1], 2, IF qr[2] = <<>> THEN 0 ELSE 1), e)

FDivAligned(n, d, e) ==
    FQuotient(DivSteps(d, GuardBits,
                       IF BigCmp(n, d) >= 0 THEN <<<<1>>, BigSub(n, d)>>
                       ELSE <<<<>>, n>>),
              e)

FDivShift(a, b, sh) ==
    FDivAligned(IF sh > 0 THEN Shl(a.m, sh) ELSE a.m,
                IF sh < 0 THEN Shl(b.m, 0 - sh) ELSE b.m,
                a.e - b.e - sh - GuardBits - 1)

FDiv(a, b) == FDivShift(a, b, BitLen(b.m) - BitLen(a.m))

EvenShift(e, k) == IF (e - k) % 2 = 0 THEN k ELSE k - 1

FSqrtShift(a, k) ==
    FQuotient(SqrtSteps(Shl(a.m, k), k, GuardBits, GuardBits, <<<<>>, <<>>>>),
              (a.e - k) \div 2 - 1)

FSqrt(a) ==
    IF a.m = <<>> THEN a
    ELSE FSqrtShift(a, EvenShift(a.e, 2 * GuardBits - BitLen(a.m)))

FCmp(a, b) ==
    LET e == IF a.e <= b.e THEN a.e ELSE b.e
    IN  BigCmp(Shl(a.m, a.e - e), Shl(b.m, b.e - e))

\* acc + x[lo] * y[lo] + ... + x[hi] * y[hi], added one term after the other
RECURSIVE FDot(_, _, _, _, _)
FDot(x, y, lo, hi, acc) ==
    IF lo > hi THEN acc
    ELSE IF lo = hi THEN FAdd(acc, FMul(x[lo], y[lo]))
    ELSE LET mid == (lo + hi) \div 2
             half == FDot(x, y, lo, mid, acc)
         IN  IF half = half THEN FDot(x, y, mid + 1, hi, half) ELSE half

\* normalize(X): each entry divided by the square root of the row's sum of
\* squares (the sum, then the root, then the quotients)
DivideRow(x, norm) ==
    IF norm = norm THEN Table([i \in 1..Len(x) |-> FDiv(x[i], norm)]) ELSE x

\* a row divided by its l2 norm, the square root of the sum of its squares
FNormalize(x) == DivideRow(x, FSqrt(FDot(x, x, 1, Len(x), FZero)))

(***************************************************************************)
(* extract_keywords (career_toolkit.py)                                    *)
(***************************************************************************)
max_features == 50
top_keywords == 20

Raise(e) == [exc |-> e]
NoExc == "none"

RECURSIVE DropSets(_, _)
DropSets(S, d) ==
    IF d = 0 THEN {S} ELSE UNION {DropSets(S \ {x}, d - 1) : x \in S}

\* CountVectorizer._limit_features: the max_features terms of largest
\* corpus frequency, (-tfs).argsort()[:limit]; which of several terms of
\* equal frequency at the cut survive is the sort's choice
KeptVocabularies(doc) ==
    LET tf == TermCounts(doc)
        V == DOMAIN tf
    IN  IF Cardinality(V) <= max_features THEN {V}
        ELSE LET cut == CHOOSE c \in {tf[f] : f \in V} :
                            /\ Cardinality({f \in V : tf[f] > c}) < max_features
                            /\ Cardinality({f \in V : tf[f] >= c}) >= max_features
                 above == {f \in V : tf[f] > cut}
                 tie == {f \in V : tf[f] = cut}
             IN  {above \cup T :
                    T \in DropSets(tie, Cardinality(above) + Cardinality(tie)
                                          - max_features)}

\* keyword_scores.sort(key=lambda x: x[1], reverse=True): a stable sort of
\* the features, listed in feature_names order, by descending weight
\* as SortByScore without reverse=True
SortByScore_Ascending(K, tf) ==
    LET Before(f, g) == \/ tf[f] < tf[g]
                        \/ tf[f] = tf[g] /\ FeatLess(f, g)
        pos == Table([f \in K |-> 1 + Cardinality({g \in K : Before(g, f)})])
    IN  [i \in 1..Cardinality(K) |-> CHOOSE f \in K : pos[f] = i]

SortByScore(K, tf) ==
    LET Before(f, g) == \/ tf[f] > tf[g]
                        \/ tf[f] = tf[g] /\ FeatLess(f, g)
        pos == Table([f \in K |-> 1 + Cardinality({g \in K : Before(g, f)})])
    IN  [i \in 1..Cardinality(K) |-> CHOOSE f \in K : pos[f] = i]

\* the squared l2 norm of the document's row: idf is 1 in a one-document
\* corpus, so a term's weight is tf / sqrt(sum of tf^2)
RowNormSq(K, tf) == SumFn(Table([f \in K |-> tf[f] * tf[f]]))

\* score > 0.1, on the squares: tf^2 / normsq > 1 / 100
ScoreAboveTenth(t, normsq) == 100 * t * t > normsq

KeywordsOf(K, doc) ==
    LET tf == TermCounts(doc)
        normsq == RowNormSq(K, tf)
        ranked == SortByScore(K, tf)
        top == SubSeq(ranked, 1, Min(top_keywords, Len(ranked)))
        Kept(f) == ScoreAboveTenth(tf[f], normsq)
    IN  SelectSeq(top, Kept)

\* the outcomes of extract_keywords(text): the keyword list, or the
\* ValueError of fit_transform on an empty vocabulary
extract_keywords(text) ==
    IF Features(text) = {} THEN {Raise("ValueError")}
    ELSE {[exc |-> NoExc, keywords |-> KeywordsOf(K, text)] :
            K \in KeptVocabularies(text)}

(***************************************************************************)
(* calculate_tfidf_similarity / calculate_keyword_match                    *)
(*   (production_career_toolkit.py)                                        *)
(***************************************************************************)
\* smooth idf over the two-document corpus, squared and scaled by 40:
\* (ln(3 / (1 + df)) + 1)^2 is 1 for df = 2 and 1.97533.. ~ 79/40 for df = 1
IdfSq40(df) == IF df = 2 THEN 40 ELSE 79

\* the number of the two documents that contain term f
DocFreq(f, tfa, tfb) ==
    (IF f \in DOMAIN tfa THEN 1 ELSE 0) + (IF f \in DOMAIN tfb THEN 1 ELSE 0)

\* 40 * the squared norm of the tf-idf row with counts tfa, in the corpus
\* whose other row has counts tfb
TfidfNormSq40(tfa, tfb) ==
    SumFn(Table([f \in DOMAIN tfa |->
                   tfa[f] * tfa[f] * IdfSq40(DocFreq(f, tfa, tfb))]))

\* 40 * the dot product of the two rows (only shared terms contribute)
TfidfDot40(tfa, tfb) ==
    SumFn(Table([f \in DOMAIN tfa \cap DOMAIN tfb |->
                   tfa[f] * tfb[f] * IdfSq40(DocFreq(f, tfa, tfb))]))

\* the largest value the fixed-point search can return (400 %)
SearchLimit == 4 * 100 * 100

\* as CosinePercent with the dot product divided by the first row's squared
\* norm instead of the product of the two norms
CosinePercent_OneNorm(a, b) ==
    LET tfa == TermCounts(a)
        tfb == TermCounts(b)
        dot == TfidfDot40(tfa, tfb)
        D == TfidfNormSq40(tfa, tfb) * TfidfNormSq40(tfa, tfb)
    IN  IF dot = 0 \/ D = 0 THEN 0
        ELSE LargestRoot(0, SearchLimit, 100 * 100 * dot, D)

\* the cosine of the two tf-idf rows * 100 in exact arithmetic, in hundredths
\* of a percent, rounded down; a row without terms is left as zeros by the
\* normalisation
CosinePercent(a, b) ==
    LET tfa == TermCounts(a)
        tfb == TermCounts(b)
        dot == TfidfDot40(tfa, tfb)
        D == TfidfNormSq40(tfa, tfb) * TfidfNormSq40(tfb, tfa)
    IN  IF dot = 0 \/ D = 0 THEN 0
        ELSE LargestRoot(0, SearchLimit, 100 * 100 * dot, D)

\* the columns of the matrix: the vocabulary in feature_names order
SortedFeatures(K) ==
    LET pos == Table([f \in K |-> 1 + Cardinality({g \in K : FeatLess(g, f)})])
    IN  Table([i \in 1..Cardinality(K) |-> CHOOSE f \in K : pos[f] = i])

\* a row of the tf-idf matrix before normalisation, for a corpus whose two
\* documents have the same terms: idf = ln(3 / 3) + 1 = 1.0, so count * idf
\* is the count
WeightRow(tf) ==
    LET cols == SortedFeatures(DOMAIN tf)
    IN  Table([i \in 1..Len(cols) |-> FloatOfInt(tf[cols[i]])])

NormalizeAgain(x) == IF x = x THEN FNormalize(x) ELSE x

\* fit_transform normalises each row (norm='l2') and cosine_similarity
\* normalises it again
UnitRow(row) == NormalizeAgain(FNormalize(row))

\* the product of the two rows, term by term in column order, * 100,
\* compared with 100.0 (-1, 0, 1)
CosineVs100(x, y) ==
    IF x = x /\ y = y
    THEN FCmp(FMul(FDot(x, y, 1, Len(x), FZero), FloatOfInt(100)),
              FloatOfInt(100))
    ELSE 0

\* for two rows in the same direction: the float64 value of
\* cosine_similarity(tfidf_matrix)[0, 1] * 100 compared with 100.0
FloatCosineVs100(tfa, tfb) ==
    CosineVs100(UnitRow(WeightRow(tfa)), UnitRow(WeightRow(tfb)))

FloatNear100(cmp) ==
    [pct |-> IF cmp < 0 THEN 100 * 100 - 1 ELSE 100 * 100, above |-> cmp > 0]

SimilarityFrom(exact, a, b) ==
    IF exact = 100 * 100
    THEN FloatNear100(FloatCosineVs100(TermCounts(a), TermCounts(b)))
    ELSE [pct |-> exact, above |-> FALSE]

\* the float the similarity computation returns: pct is its value in
\* hundredths of a percent, rounded down, and above says that it is greater
\* than 100.0.  Rounding errors (about 1e-14) show only where the exact
\* cosine is 1, that is for rows in the same direction
Similarity(a, b) == SimilarityFrom(CosinePercent(a, b), a, b)

\* as TfidfSimilarity with each document vectorized on its own
TfidfSimilarity_PerDocument(a, b) ==
    IF Features(a) = {} \/ Features(b) = {}
    THEN Raise("ValueError")
    ELSE [exc |-> NoExc, value |-> Similarity(a, b)]

\* TfidfVectorizer(stop_words='english', lowercase=True, ngram_range=(1, 2))
\* .fit_transform([a, b]), then cosine_similarity(...)[0, 1] * 100;
\* fit_transform raises ValueError when the corpus has no term at all
TfidfSimilarity(a, b) ==
    IF Features(a) \cup Features(b) = {}
    THEN Raise("ValueError")
    ELSE [exc |-> NoExc, value |-> Similarity(a, b)]

calculate_tfidf_similarity(resume_text, job_desc) ==
    TfidfSimilarity(resume_text, job_desc)

\* as calculate_keyword_match without the common-word filter
calculate_keyword_match_Unfiltered(resume_text, job_desc) ==
    LET job_keywords == AlphaTokens(job_desc)
        resume_keywords == AlphaTokens(resume_text)
        matching_keywords == job_keywords \cap resume_keywords
    IN  IF job_keywords = {} THEN 0
        ELSE PercentOf(Cardinality(matching_keywords), Cardinality(job_keywords))

calculate_keyword_match(resume_text, job_desc) ==
    LET job_keywords == AlphaTokens(job_desc) \ common_words
        resume_keywords == AlphaTokens(resume_text)
        matching_keywords == job_keywords \cap resume_keywords
    IN  IF job_keywords = {} THEN 0
        ELSE PercentOf(Cardinality(matching_keywords), Cardinality(job_keywords))

(***************************************************************************)
(* Return values                                                           *)
(***************************************************************************)
Message(text) == [kind |-> "message", msg |-> text, detail |-> NoExc]
\* f"{prefix}: {str(e)}"
ErrorMessage(prefix, e) == [kind |-> "message", msg |-> prefix, detail |-> e]
Report(r) == [kind |-> "report", report |-> r]
Raised(e) == [kind |-> "raise", exc |-> e]

PleaseUpload == "Please upload a resume file and provide a job description."
CouldNotExtract == "Could not extract text from resume file."
ErrorCalculating == "Error calculating ATS score"

\* as CatchAts without the except clause
CatchAts_Propagates(o) ==
    IF o.exc # NoExc THEN Raised(o.exc) ELSE Report(o.report)

\* except Exception as e: return f"Error calculating ATS score: {str(e)}", None
CatchAts(o) ==
    IF o.exc # NoExc THEN ErrorMessage(ErrorCalculating, o.exc)
    ELSE Report(o.report)

\* extract_text_from_pdf: "" when the file cannot be read, else every
\* non-empty page's text followed by "\n"
extract_text_from_pdf(fstate, ptext) ==
    IF fstate = "unreadable" THEN <<>>
    ELSE IF ptext = <<>> THEN <<>>
    ELSE ptext \o <<"\n">>

ToSet(s) == {s[i] : i \in DOMAIN s}

\* list(keywords)[:15]: at most 15 of the set's members, in the set's order
Shown15(S) ==
    IF Cardinality(S) <= 15 THEN {S}
    ELSE {T \in SUBSET S : Cardinality(T) = 15}

\* scores in hundredths of a percent
ScoreLevel(score) ==
    IF score >= 80 * 100 THEN "Excellent"
    ELSE IF score >= 60 * 100 THEN "Good"
    ELSE IF score >= 40 * 100 THEN "Fair"
    ELSE "Needs Improvement"

(***************************************************************************)
(* ComprehensiveCareerToolkit.calculate_ats_score (career_toolkit.py)      *)
(***************************************************************************)
\* the f-string divides len(matching_keywords) by len(job_keywords)
create_ats_report(ats_score, matching_keywords, missing_keywords, job_keywords, resume_keywords) ==
    IF Len(job_keywords) = 0 THEN {Raise("ZeroDivisionError")}
    ELSE {[exc |-> NoExc,
           report |->
             [ats_score |-> ats_score,
              score_level |-> ScoreLevel(ats_score.pct),
              job_keyword_count |-> Len(job_keywords),
              matching_count |-> Cardinality(matching_keywords),
              match_rate |-> PercentOf(Cardinality(matching_keywords),
                                       Len(job_keywords)),
              matching_shown |-> ms,
              missing_count |-> Cardinality(missing_keywords),
              missing_shown |-> xs]] :
            ms \in Shown15(matching_keywords),
            xs \in Shown15(missing_keywords)}

\* as calculate_ats_score_try with the missing keywords taken from the resume
calculate_ats_score_try_Swapped(resume_text, job_desc) ==
    LET sim == TfidfSimilarity(resume_text, job_desc)
    IN  IF sim.exc # NoExc THEN {Raise(sim.exc)}
        ELSE UNION {
               IF jk.exc # NoExc THEN {Raise(jk.exc)}
               ELSE UNION {
                      IF rk.exc # NoExc THEN {Raise(rk.exc)}
                      ELSE create_ats_report(
                             sim.value,
                             ToSet(jk.keywords) \cap ToSet(rk.keywords),
                             ToSet(rk.keywords) \ ToSet(jk.keywords),
                             jk.keywords, rk.keywords) :
                      rk \in extract_keywords(resume_text)} :
               jk \in extract_keywords(job_desc)}

\* the try block of calculate_ats_score once the resume text is there
calculate_ats_score_try(resume_text, job_desc) ==
    LET sim == TfidfSimilarity(resume_text, job_desc)
    IN  IF sim.exc # NoExc THEN {Raise(sim.exc)}
        ELSE UNION {
               IF jk.exc # NoExc THEN {Raise(jk.exc)}
               ELSE UNION {
                      IF rk.exc # NoExc THEN {Raise(rk.exc)}
                      ELSE create_ats_report(
                             sim.value,
                             ToSet(jk.keywords) \cap ToSet(rk.keywords),
                             ToSet(jk.keywords) \ ToSet(rk.keywords),
                             jk.keywords, rk.keywords) :
                      rk \in extract_keywords(resume_text)} :
               jk \in extract_keywords(job_desc)}

calculate_ats_score(fstate, ptext, job_desc) ==
    IF fstate = "none" \/ IsBlank(job_desc) THEN {Message(PleaseUpload)}
    ELSE LET resume_text == extract_text_from_pdf(fstate, ptext)
         IN  IF IsEmptyString(resume_text) THEN {Message(CouldNotExtract)}
             ELSE {CatchAts(o) :
                     o \in calculate_ats_score_try(resume_text, job_desc)}

(***************************************************************************)
(* ProductionCareerToolkit.calculate_ats_score_advanced                    *)
(***************************************************************************)
\* what generate_ai_content does in a call: the model's text, the
\* "unavailable" fallback text, the "failed" text, or an exception on a
\* response body that is neither a dict nor a list of dicts
AiOutcomes == {"generated", "unavailable", "failed", "raises"}

generate_ai_content(ai) ==
    CASE ai = "generated" -> [exc |-> NoExc, text |-> "generated_text"]
      [] ai = "unavailable" ->
           [exc |-> NoExc,
            text |-> "AI service temporarily unavailable. Using fallback generation."]
      [] ai = "failed" ->
           [exc |-> NoExc, text |-> "Content generation failed. Please try again."]
      [] OTHER -> Raise("TypeError")

\* as CombinedAtsScore with the two weights exchanged
CombinedAtsScore_Swapped(tfidf_score, keyword_score) ==
    tfidf_score * 4 + keyword_score * 6

\* ats_score = (tfidf_score * 0.6 + keyword_score * 0.4), in thousandths
CombinedAtsScore(tfidf_score, keyword_score) ==
    tfidf_score * 6 + keyword_score * 4

production_create_ats_report(ats_score, tfidf_score, keyword_score, ai_analysis) ==
    [ats_score |-> ats_score,
     score_level |-> ScoreLevel(ats_score \div 10),
     tfidf_score |-> tfidf_score,
     keyword_score |-> keyword_score,
     ai_analysis |-> ai_analysis]

calculate_ats_score_advanced_try(resume_text, job_desc, ai) ==
    LET tfidf == calculate_tfidf_similarity(resume_text, job_desc)
        keyword_score == calculate_keyword_match(resume_text, job_desc)
        ai_analysis == generate_ai_content(ai)
    IN  IF tfidf.exc # NoExc THEN Raise(tfidf.exc)
        ELSE IF ai_analysis.exc # NoExc THEN Raise(ai_analysis.exc)
        ELSE [exc |-> NoExc,
              report |-> production_create_ats_report(
                           CombinedAtsScore(tfidf.value.pct, keyword_score),
                           tfidf.value, keyword_score, ai_analysis.text)]

calculate_ats_score_advanced(fstate, ptext, job_desc, ai) ==
    IF fstate = "none" \/ IsBlank(job_desc) THEN Message(PleaseUpload)
    ELSE LET resume_text == extract_text_from_pdf(fstate, ptext)
         IN  IF IsEmptyString(resume_text) THEN Message(CouldNotExtract)
             ELSE CatchAts(calculate_ats_score_advanced_try(resume_text, job_desc, ai))

(***************************************************************************)
(* ComprehensiveCareerToolkit.calculate_resume_score                       *)
(*   points are kept doubled, so that action_verbs * 1.5 stays integral    *)
(***************************************************************************)
required_sections == 5

\* min(40, (found_sections / required_sections) * 40)
SectionsPoints2(a) ==
    Min(2 * 40, (2 * 40 * Len(a.sections_found)) \div required_sections)

WordCountPoints2(a) ==
    IF 300 <= a.word_count /\ a.word_count <= 700 THEN 2 * 20
    ELSE IF 200 <= a.word_count /\ a.word_count <= 800 THEN 2 * 15
    ELSE 2 * 10

\* min(15, len(skills_found) * 2)
SkillsPoints2(a) == Min(2 * 15, 2 * (Len(a.skills_found) * 2))

\* as ActionVerbPoints2 without the cap
ActionVerbPoints2_Uncapped(a) == a.action_verbs * 3

\* min(10, action_verbs * 1.5)
ActionVerbPoints2(a) == Min(2 * 10, a.action_verbs * 3)

\* as QuantifiedPoints2 without the cap
QuantifiedPoints2_Uncapped(a) == 2 * (a.quantified_achievements * 2)

\* min(10, quantified_achievements * 2)
QuantifiedPoints2(a) == Min(2 * 10, 2 * (a.quantified_achievements * 2))

ContactPoints2(a) == IF a.contact_info THEN 2 * 5 ELSE 0

ResumePoints2(a) ==
    SectionsPoints2(a) + WordCountPoints2(a) + SkillsPoints2(a)
      + ActionVerbPoints2(a) + QuantifiedPoints2(a) + ContactPoints2(a)

\* int(min(100, score))
calculate_resume_score(a) == Min(2 * 100, ResumePoints2(a)) \div 2

(***************************************************************************)
(* The perfection scores                                                   *)
(*   ComprehensiveCareerToolkit.calculate_detailed_scores, in quarters of  *)
(*   a point: (sections_found / 4) * 25 is a multiple of 0.25              *)
(*   ProductionCareerToolkit.calculate_detailed_perfection_scores, in      *)
(*   whole points                                                          *)
(***************************************************************************)
\* required_sections = ['experience', 'education', 'skills', 'summary']
detailed_required_sections == <<"experience", "education", "skills", "summary">>

\* min(25, (sections_found / len(required_sections)) * 25)
StructureScore4(a) ==
    Min(4 * 25,
        (4 * 25 * Len(a.sections_found)) \div Len(detailed_required_sections))

\* five tests worth 5 points each
ContentScore4(a) ==
    4 * ((IF a.word_count >= 300 THEN 5 ELSE 0)
         + (IF a.action_verbs >= 5 THEN 5 ELSE 0)
         + (IF a.quantified_achievements >= 3 THEN 5 ELSE 0)
         + (IF Len(a.skills_found) >= 5 THEN 5 ELSE 0)
         + (IF a.contact_info THEN 5 ELSE 0))

\* min(20, len(skills_found) * 2)
KeywordsScore4(a) == 4 * Min(20, Len(a.skills_found) * 2)

\* 15, less 5 when len(resume_text.split()) < 200
FormattingScore4(words) == 4 * (IF words < 200 THEN 15 - 5 ELSE 15)

\* max(0, 15 - len(grammar_issues) * 3)
GrammarScore4(a) == 4 * Max(0, 15 - Len(a.grammar_issues) * 3)

\* scores['overall'] = sum(scores.values()) - scores['overall']
WithOverall(scores) ==
    [scores EXCEPT !.overall = SumFn(scores) - scores.overall]

calculate_detailed_scores(a, words) ==
    WithOverall([structure |-> StructureScore4(a),
                 content |-> ContentScore4(a),
                 keywords |-> KeywordsScore4(a),
                 formatting |-> FormattingScore4(words),
                 grammar |-> GrammarScore4(a),
                 overall |-> 0])

\* as PerfectionContent without the cap
PerfectionContent_Uncapped(a) ==
    (a.action_verbs * 2) + (a.quantified_achievements * 3)

\* min(25, (action_verbs * 2) + (quantified_achievements * 3))
PerfectionContent(a) ==
    Min(25, (a.action_verbs * 2) + (a.quantified_achievements * 3))

calculate_detailed_perfection_scores(a) ==
    WithOverall(
      [structure |-> Min(25, Len(a.sections_found) * 5),
       content |-> PerfectionContent(a),
       keywords |-> Min(20, Len(a.skills_found) * 2),
       formatting |->
         Min(15, IF 300 <= a.word_count /\ a.word_count <= 700 THEN 15 ELSE 10),
       professionalism |-> Min(15, IF a.contact_info THEN 15 ELSE 10),
       overall |-> 0])

(***************************************************************************)
(* Inputs                                                                  *)
(***************************************************************************)
MaxLen == 2
Alphabet == {"Python", "sql", "the", " "}
ShortDocs == UNION {[1..n -> Alphabet] : n \in 0..MaxLen}

JobExample == <<"Python", "SQL", "AWS", "Docker">>
ResumeExample == <<"Experienced", "with", "Python", "and", "Docker", "projects">>

ExampleDocs ==
    {JobExample, ResumeExample,
     <<"the", "and">>, <<"The", "--">>, <<"about">>, <<"about", "python">>,
     <<"go">>, <<"go", "Python">>, <<"k8s", "Python">>, <<"c">>, <<"--">>,
     <<"will", "SQL", "of", "AWS">>, <<"\n">>}

Documents == ShortDocs \cup ExampleDocs

\* the analysis record of a resume nobody analysed
NoAnalysis ==
    [sections_found |-> <<>>, word_count |-> 0, skills_found |-> <<>>,
     contact_info |-> FALSE, action_verbs |-> 0, quantified_achievements |-> 0]

NoResult == [op |-> "none"]

\* keyword lists handed to create_ats_report when it is called on its own
ReportKeywordLists ==
    {<<>>, <<<<"python">>>>, <<<<"python">>, <<"sql">>>>}
ReportScores ==
    {[pct |-> 0, above |-> FALSE], [pct |-> 80 * 100, above |-> FALSE]}

\* documents for extract_keywords alone: a word repeated, then a list of skills
MaxRepeat == 10
SkillWords ==
    <<"agile", "aws", "azure", "bash", "css", "docker", "git", "go", "html",
      "java", "k8s", "kafka", "linux", "node", "perl", "projects", "python",
      "react", "redis", "ruby", "rust", "scala", "spark", "sql", "swift",
      "experienced">>
MaxSkillList == 12
KeywordDocs ==
    {[i \in 1..n |-> "Python"] \o SubSeq(SkillWords, 1, k) :
        n \in 0..MaxRepeat, k \in 0..MaxSkillList}
      \cup {SkillWords} \cup ShortDocs \cup ExampleDocs

\* analysis records as perform_resume_analysis builds them: the sections
\* and skills found (only their number counts here), the counts, the flag;
\* a text without words has nothing to find
MaxSkillsFound == 8
MaxActionVerbs == 8
MaxQuantified == 6
SectionTitles == <<"Experience", "Education", "Skills", "Summary", "Objective">>
WordCounts == {0, 199, 200, 299, 300, 700, 701, 800, 801}
AnalysisRecords ==
    {a \in [sections_found : {SubSeq(SectionTitles, 1, n) : n \in 0..Len(SectionTitles)},
            word_count : WordCounts,
            skills_found : {[i \in 1..n |-> i] : n \in 0..MaxSkillsFound},
            contact_info : BOOLEAN,
            action_verbs : 0..MaxActionVerbs,
            quantified_achievements : 0..MaxQuantified] :
        a.word_count = 0 => a = NoAnalysis}

\* analysis records for the perfection scores: perform_resume_analysis adds
\* grammar_issues, a list of at most two remarks
MaxPerfectionSkills == 11
GrammarIssues ==
    {<<>>, <<"Consider adding more complete sentences">>,
     <<"Consider using more comma-separated lists for clarity">>,
     <<"Consider adding more complete sentences",
       "Consider using more comma-separated lists for clarity">>}
PerfectionRecords ==
    [sections_found : {SubSeq(SectionTitles, 1, n) : n \in 0..Len(SectionTitles)},
     word_count : {199, 200, 299, 300, 700, 701},
     skills_found : {[i \in 1..n |-> i] : n \in {0, 4, 5, 10, MaxPerfectionSkills}},
     contact_info : BOOLEAN,
     action_verbs : {0, 4, 5, MaxActionVerbs},
     quantified_achievements : {0, 2, 3, MaxQuantified},
     grammar_issues : GrammarIssues]

\* what the constructors leave in the instances toolkit and
\* production_toolkit: HF_TOKEN is set or not, the model loaded or not
ToolkitStates ==
    [hf_token : {"", "hf_token"},
     ai_enabled : BOOLEAN,
     job_database : {"job_database"},
     skills_database : {"skills_database"}]

ConfiguredToolkit ==
    [hf_token |-> "hf_token", ai_enabled |-> TRUE,
     job_database |-> "job_database", skills_database |-> "skills_database"]

\* the request threads of the web interface
RequestIds == {"r1", "r2"}
NoCall == [op |-> "none"]
NoCalls == [r \in RequestIds |-> NoCall]

\* one caller at a time, on a configured toolkit
SingleCaller ==
    /\ toolkit = ConfiguredToolkit
    /\ calls = NoCalls

\* Python's None
None == "None"

EmptyTables ==
    [users |-> {}, resumes |-> <<>>, cover_letters |-> <<>>, analytics |-> <<>>,
     job_applications |-> <<>>, skill_assessments |-> <<>>, chat_history |-> <<>>]

\* no call of query_huggingface_api is in progress
NoQuery == api = [pc |-> "idle"]

\* the process has started: no DatabaseManager yet, no user session
NoSession ==
    /\ db_manager = None
    /\ current_user_id = None
    /\ db = EmptyTables

InitKeywords ==
    /\ file_state = "none"
    /\ page_text = <<>>
    /\ job_description \in KeywordDocs
    /\ analysis = NoAnalysis
    /\ result = NoResult
    /\ SingleCaller
    /\ NoSession
    /\ NoQuery

InitScore ==
    /\ file_state = "none"
    /\ page_text = <<>>
    /\ job_description = <<>>
    /\ analysis \in AnalysisRecords
    /\ result = NoResult
    /\ SingleCaller
    /\ NoSession
    /\ NoQuery

InitAts ==
    /\ file_state \in {"none", "ok", "unreadable"}
    /\ page_text \in Documents
    /\ file_state # "ok" => page_text = <<>>
    /\ job_description \in Documents
    /\ analysis = NoAnalysis
    /\ result = NoResult
    /\ SingleCaller
    /\ NoSession
    /\ NoQuery

(***************************************************************************)
(* Operations                                                              *)
(***************************************************************************)
Inputs ==
    <<file_state, page_text, job_description, analysis, toolkit, calls,
      db_manager, current_user_id, db, api>>

\* the toolkit's calls are synchronous: a call starts when none is pending
Idle == result = NoResult

CalculateAtsScore ==
    /\ Idle
    /\ \E r \in calculate_ats_score(file_state, page_text, job_description) :
          result' = [op |-> "calculate_ats_score", ret |-> r]
    /\ UNCHANGED Inputs

CalculateAtsScoreAdvanced ==
    /\ Idle
    /\ \E ai \in AiOutcomes :
          result' = [op |-> "calculate_ats_score_advanced", ai |-> ai,
                     ret |-> calculate_ats_score_advanced(
                               file_state, page_text, job_description, ai)]
    /\ UNCHANGED Inputs

\* the pure functions, called on the two texts as they are
CalculateTfidfSimilarity ==
    /\ Idle
    /\ result' = [op |-> "calculate_tfidf_similarity",
                  ret |-> calculate_tfidf_similarity(page_text, job_description)]
    /\ UNCHANGED Inputs

CalculateKeywordMatch ==
    /\ Idle
    /\ result' = [op |-> "calculate_keyword_match",
                  ret |-> calculate_keyword_match(page_text, job_description)]
    /\ UNCHANGED Inputs

ExtractKeywords(text) ==
    /\ Idle
    /\ \E r \in extract_keywords(text) :
          result' = [op |-> "extract_keywords", text |-> text, ret |-> r]
    /\ UNCHANGED Inputs

CreateAtsReport ==
    /\ Idle
    /\ \E jk \in ReportKeywordLists, rk \in ReportKeywordLists, sc \in ReportScores :
         \E r \in create_ats_report(sc, ToSet(jk) \cap ToSet(rk),
                                    ToSet(jk) \ ToSet(rk), jk, rk) :
            result' = [op |-> "create_ats_report", job_keywords |-> jk,
                       resume_keywords |-> rk, ret |-> r]
    /\ UNCHANGED Inputs

CalculateResumeScore ==
    /\ Idle
    /\ result' = [op |-> "calculate_resume_score",
                  ret |-> calculate_resume_score(analysis)]
    /\ UNCHANGED Inputs

\* calculate_perfection_score hands over the analysis of resume_text and
\* resume_text itself, whose number of words is analysis['word_count']
CalculateDetailedScores ==
    /\ Idle
    /\ result' = [op |-> "calculate_detailed_scores",
                  ret |-> calculate_detailed_scores(analysis, analysis.word_count)]
    /\ UNCHANGED Inputs

CalculateDetailedPerfectionScores ==
    /\ Idle
    /\ result' = [op |-> "calculate_detailed_perfection_scores",
                  ret |-> calculate_detailed_perfection_scores(analysis)]
    /\ UNCHANGED Inputs

\* the caller takes the returned value (or the exception)
Return ==
    /\ ~Idle
    /\ result' = NoResult
    /\ UNCHANGED Inputs

Next ==
    \/ CalculateAtsScore
    \/ CalculateAtsScoreAdvanced
    \/ CalculateTfidfSimilarity
    \/ CalculateKeywordMatch
    \/ \E text \in {page_text, job_description} : ExtractKeywords(text)
    \/ CreateAtsReport
    \/ Return

Spec == InitAts /\ [][Next]_vars

\* extract_keywords on its own, over the longer documents
NextKeywords ==
    \/ ExtractKeywords(job_description)
    \/ Return

SpecKeywords == InitKeywords /\ [][NextKeywords]_vars

\* calculate_resume_score on its own, over the analysis records
NextScore ==
    \/ CalculateResumeScore
    \/ Return

SpecScore == InitScore /\ [][NextScore]_vars

\* the perfection scores on their own
InitPerfection ==
    /\ file_state = "none"
    /\ page_text = <<>>
    /\ job_description = <<>>
    /\ analysis \in PerfectionRecords
    /\ result = NoResult
    /\ SingleCaller
    /\ NoSession
    /\ NoQuery

NextPerfection ==
    \/ CalculateDetailedScores
    \/ CalculateDetailedPerfectionScores
    \/ Return

SpecPerfection == InitPerfection /\ [][NextPerfection]_vars

(***************************************************************************)
(* Scoring calls of several requests.  The web interface runs the handlers *)
(* of different requests in threads on the same two toolkit instances; a   *)
(* call has its arguments and its local variables in its own frame.        *)
(***************************************************************************)
ScoringOps ==
    {"calculate_tfidf_similarity", "calculate_keyword_match",
     "extract_keywords", "calculate_resume_score"}

RequestDocs ==
    {<<"go", "Python">>, <<"about", "python">>, <<"sql">>, <<"the", "and">>}
RequestAnalyses ==
    {NoAnalysis,
     [sections_found |-> SectionTitles, word_count |-> 300,
      skills_found |-> <<1, 2, 3>>, contact_info |-> TRUE,
      action_verbs |-> 3, quantified_achievements |-> 2]}

\* the arguments a request can call an operation with
CallArgs(op) ==
    CASE op \in {"calculate_tfidf_similarity", "calculate_keyword_match"} ->
           [resume_text : RequestDocs, job_description : RequestDocs]
      [] op = "extract_keywords" -> [text : RequestDocs]
      [] op = "calculate_resume_score" -> [analysis : RequestAnalyses]

\* as Frame, but the arguments are read from where the latest call of the
\* operation left them (an attribute of the instance, not a local)
Frame_Shared(r) ==
    LET others == {q \in RequestIds \ {r} : calls[q].op = calls[r].op}
    IN  IF others = {} THEN calls[r]
        ELSE [calls[r] EXCEPT !.args = calls[CHOOSE q \in others : TRUE].args]

\* what the body of the call of request r works on: its own arguments
Frame(r) == calls[r]

\* the values the body can return (or the exceptions it can raise); none of
\* the four bodies reads a field of the instance
ScoringOutcomes(frame, tk) ==
    CASE frame.op = "calculate_tfidf_similarity" ->
           {calculate_tfidf_similarity(frame.args.resume_text,
                                       frame.args.job_description)}
      [] frame.op = "calculate_keyword_match" ->
           {calculate_keyword_match(frame.args.resume_text,
                                    frame.args.job_description)}
      [] frame.op = "extract_keywords" -> extract_keywords(frame.args.text)
      [] frame.op = "calculate_resume_score" ->
           {calculate_resume_score(frame.args.analysis)}

\* as Finished, but the analysis record comes back emptied
Finished_Consumed(frame, ret) ==
    [op |-> frame.op,
     args |-> IF frame.op = "calculate_resume_score"
              THEN [analysis |-> NoAnalysis] ELSE frame.args,
     pc |-> "done", ret |-> ret]

\* the frame when the body has run: the arguments are as they were passed
Finished(frame, ret) ==
    [op |-> frame.op, args |-> frame.args, pc |-> "done", ret |-> ret]

StartCall(r) ==
    /\ calls[r] = NoCall
    /\ \E op \in ScoringOps : \E args \in CallArgs(op) :
          calls' = [calls EXCEPT ![r] = [op |-> op, args |-> args,
                                         pc |-> "called"]]
    /\ UNCHANGED <<file_state, page_text, job_description, analysis, result, toolkit,
                   db_manager, current_user_id, db, api>>

RunCall(r) ==
    /\ calls[r].op \in ScoringOps
    /\ calls[r].pc = "called"
    /\ \E ret \in ScoringOutcomes(Frame(r), toolkit) :
          calls' = [calls EXCEPT ![r] = Finished(calls[r], ret)]
    /\ UNCHANGED <<file_state, page_text, job_description, analysis, result, toolkit,
                   db_manager, current_user_id, db, api>>

ReturnCall(r) ==
    /\ calls[r].op \in ScoringOps
    /\ calls[r].pc = "done"
    /\ calls' = [calls EXCEPT ![r] = NoCall]
    /\ UNCHANGED <<file_state, page_text, job_description, analysis, result, toolkit,
                   db_manager, current_user_id, db, api>>

InitRequests ==
    /\ file_state = "none"
    /\ page_text = <<>>
    /\ job_description = <<>>
    /\ analysis = NoAnalysis
    /\ result = NoResult
    /\ toolkit \in ToolkitStates
    /\ calls = NoCalls
    /\ NoSession
    /\ NoQuery

NextRequests ==
    \E r \in RequestIds :
        \/ StartCall(r)
        \/ RunCall(r)
        \/ ReturnCall(r)

SpecRequests == InitRequests /\ [][NextRequests]_vars

(***************************************************************************)
(* Generation with storage (database_interface.py, database_manager.py,    *)
(* generate_ai_resume and generate_ai_cover_letter of the production       *)
(* toolkit).  A text is a sequence of words, as a document is.             *)
(***************************************************************************)
\* a statement a DatabaseManager method executes commits, or raises; the
\* method catches the exception, rolls back and returns None
DbOutcomes == {"ok", "error"}

\* str.upper() on the words of the forms
UpperWord(w) ==
    CASE w = "Ann" -> "ANN"
      [] w = "Engineer" -> "ENGINEER"
      [] w = "successfully" -> "SUCCESSFULLY"
      [] w = "shipping" -> "SHIPPING"
      [] OTHER -> w

Upper(text) == [i \in DOMAIN text |-> UpperWord(text[i])]

\* text[:n], counted in words
Truncated(text, n) == SubSeq(text, 1, Min(Len(text), n))

\* word in text
Mentions(word, text) == \E i \in DOMAIN text : text[i] = word

\* get_db_manager(): DatabaseManager() connects, and a failed connection
\* is raised again
get_db_manager(manager, connect) ==
    IF manager # None THEN [exc |-> NoExc, db_manager |-> manager]
    ELSE IF connect = "error" THEN Raise("OperationalError")
    ELSE [exc |-> NoExc, db_manager |-> "DatabaseManager"]

\* email.lower() on the addresses of the model
LowerEmail(email) == IF email = "Ann@X.org" THEN "ann@x.org" ELSE email

\* as generate_user_id, hashing the address as it was typed
generate_user_id_CaseSensitive(tables, name, email) ==
    IF email # None THEN "md5 " \o email
    ELSE "user_" \o ToString(Cardinality(tables.users) + 1)

\* generate_user_id: the hash of the lower-case address, or else the hash of
\* the name (or "anonymous") and the time of the call, which no row has yet
generate_user_id(tables, name, email) ==
    IF email # None THEN "md5 " \o LowerEmail(email)
    ELSE "user_" \o ToString(Cardinality(tables.users) + 1)

\* UPDATE users SET last_active = CURRENT_TIMESTAMP WHERE user_id = id
TouchUser(users, id) ==
    {IF u.user_id = id THEN [u EXCEPT !.last_active = @ + 1] ELSE u : u \in users}

\* create_or_get_user: the row returned (its id, name and email), whether it
\* was inserted, and the table afterwards; None after a rollback
create_or_get_user(tables, name, email, user_id, outcome) ==
    LET id == IF user_id # None THEN user_id
              ELSE generate_user_id(tables, name, email)
        found == {u \in tables.users : u.user_id = id}
    IN  IF outcome = "error"
        THEN [user_id |-> None, name |-> None, email |-> None,
              inserted |-> FALSE, tables |-> tables]
        ELSE IF found # {}
        THEN LET user == CHOOSE u \in found : TRUE
             IN  [user_id |-> id, name |-> user.name, email |-> user.email,
                  inserted |-> FALSE,
                  tables |-> [tables EXCEPT !.users = TouchUser(@, id)]]
        ELSE [user_id |-> id, name |-> name, email |-> email, inserted |-> TRUE,
              tables |-> [tables EXCEPT !.users =
                            @ \cup {[user_id |-> id, name |-> name,
                                      email |-> email, last_active |-> 0]}]]

\* INSERT ... RETURNING id, commit; None after a rollback
InsertDocument(tables, table, row, outcome) ==
    IF outcome = "error" THEN [id |-> None, tables |-> tables]
    ELSE [id |-> ToString(Len(tables[table]) + 1),
          tables |-> [tables EXCEPT ![table] = Append(@, row)]]

save_resume(tables, user_id, pdf_path, outcome) ==
    InsertDocument(tables, "resumes",
                   [user_id |-> user_id, pdf_path |-> pdf_path,
                    analysis_score |-> 0],
                   outcome)

save_cover_letter(tables, user_id, pdf_path, outcome) ==
    InsertDocument(tables, "cover_letters",
                   [user_id |-> user_id, pdf_path |-> pdf_path], outcome)

log_analytics(tables, user_id, action_type, outcome) ==
    IF outcome = "error" THEN tables
    ELSE [tables EXCEPT !.analytics =
            Append(@, [user_id |-> user_id, action_type |-> action_type])]

\* the three globals together
Session == [db_manager |-> db_manager, current_user_id |-> current_user_id, db |-> db]

get_or_create_user_session(name, st, env) ==
    IF st.current_user_id # None THEN [exc |-> NoExc, st |-> st]
    ELSE LET m == get_db_manager(st.db_manager, env.connect)
         IN  IF m.exc # NoExc THEN [exc |-> m.exc, st |-> st]
             ELSE LET u == create_or_get_user(st.db, name, None, None,
                                              env.create_user)
                  IN  [exc |-> NoExc,
                       st |-> [db_manager |-> m.db_manager,
                               current_user_id |-> u.user_id,
                               db |-> u.tables]]

format_resume_content(content, name, role) ==
    Upper(name) \o <<"\n">> \o role \o <<"\n">> \o <<content>>
      \o <<"\n", "Generated with AI Career Toolkit">>

format_cover_letter_content(content, name, role, company) ==
    name \o <<"\n">> \o role \o <<"Application", "\n", "Dear Hiring Manager,">>
      \o <<content>> \o <<"\n", "Sincerely,">> \o name

\* generate_ai_resume: (result text, pdf_path)
generate_ai_resume(form, ai, pdf) ==
    IF IsBlank(form.name) \/ IsBlank(form.role) \/ IsBlank(form.skills)
         \/ IsBlank(form.experience) \/ IsBlank(form.education)
    THEN [text |-> <<"Please fill in all fields to generate your resume.">>,
          pdf_path |-> None]
    ELSE LET c == generate_ai_content(ai)
         IN  IF c.exc # NoExc
             THEN [text |-> <<"Error generating resume:", c.exc>>, pdf_path |-> None]
             ELSE IF pdf = "error"
             THEN [text |-> <<"Error generating resume:", "Failed to create PDF">>,
                   pdf_path |-> None]
             ELSE [text |-> <<"AI-Generated", "Resume", "for">> \o form.name
                              \o <<"\n">>
                              \o Truncated(format_resume_content(
                                              c.text, form.name, form.role), 600)
                              \o <<"...">>,
                   pdf_path |-> "resume.pdf"]

generate_ai_cover_letter(form, ai, pdf) ==
    IF IsBlank(form.name) \/ IsBlank(form.role) \/ IsBlank(form.company)
         \/ IsBlank(form.skills)
    THEN [text |-> <<"Please fill in all fields to generate your cover letter.">>,
          pdf_path |-> None]
    ELSE LET c == generate_ai_content(ai)
         IN  IF c.exc # NoExc
             THEN [text |-> <<"Error generating cover letter:", c.exc>>,
                   pdf_path |-> None]
             ELSE IF pdf = "error"
             THEN [text |-> <<"Error generating cover letter:", "Failed to create PDF">>,
                   pdf_path |-> None]
             ELSE [text |-> <<"AI-Generated", "Cover", "Letter", "for">>
                              \o form.company \o <<"\n">>
                              \o Truncated(format_cover_letter_content(
                                              c.text, form.name, form.role,
                                              form.company), 500)
                              \o <<"...">>,
                   pdf_path |-> "cover_letter.pdf"]

\* if pdf_path and "successfully" in result_text
ShouldSave(gen) == gen.pdf_path # None /\ Mentions("successfully", gen.text)

\* the saved document's id is appended to the text when there is one, and
\* the event is logged
AfterSave(gen, saved, user_id, event, env) ==
    IF saved.id = None
    THEN [text |-> gen.text, tables |-> saved.tables]
    ELSE [text |-> gen.text \o <<"saved to your account">>,
          tables |-> log_analytics(saved.tables, user_id, event, env.log_done)]

enhanced_resume_generation(form, st, env) ==
    LET s == get_or_create_user_session(form.name, st, env)
    IN  IF s.exc # NoExc THEN [exc |-> s.exc, st |-> st]
        ELSE LET user_id == s.st.current_user_id
                 started == log_analytics(s.st.db, user_id,
                                          "resume_generation_started",
                                          env.log_started)
                 gen == generate_ai_resume(form, env.ai, env.pdf)
                 done == IF ShouldSave(gen)
                         THEN AfterSave(gen,
                                        save_resume(started, user_id,
                                                    gen.pdf_path, env.save),
                                        user_id, "resume_generated", env)
                         ELSE [text |-> gen.text, tables |-> started]
             IN  [exc |-> NoExc, text |-> done.text, pdf_path |-> gen.pdf_path,
                  st |-> [s.st EXCEPT !.db = done.tables]]

enhanced_cover_letter_generation(form, st, env) ==
    LET s == get_or_create_user_session(form.name, st, env)
    IN  IF s.exc # NoExc THEN [exc |-> s.exc, st |-> st]
        ELSE LET user_id == s.st.current_user_id
                 started == log_analytics(s.st.db, user_id,
                                          "cover_letter_generation_started",
                                          env.log_started)
                 gen == generate_ai_cover_letter(form, env.ai, env.pdf)
                 done == IF ShouldSave(gen)
                         THEN AfterSave(gen,
                                        save_cover_letter(started, user_id,
                                                          gen.pdf_path, env.save),
                                        user_id, "cover_letter_generated", env)
                         ELSE [text |-> gen.text, tables |-> started]
             IN  [exc |-> NoExc, text |-> done.text, pdf_path |-> gen.pdf_path,
                  st |-> [s.st EXCEPT !.db = done.tables]]

\* what the user typed into the form
Forms ==
    [name : {<<>>, <<"Ann">>},
     role : {<<"Engineer">>, <<"Engineer", "successfully", "shipping">>},
     company : {<<"Acme">>},
     skills : {<<"Python", "SQL">>},
     experience : {<<"5", "years">>},
     education : {<<"BSc">>}]

\* what the database, the AI service and the PDF writer do during a call
Environments ==
    [connect : DbOutcomes, create_user : DbOutcomes, log_started : DbOutcomes,
     save : DbOutcomes, log_done : DbOutcomes, ai : AiOutcomes, pdf : DbOutcomes]

MaxRows == 3
Rows(tables) ==
    Len(tables.resumes) + Len(tables.cover_letters) + Len(tables.analytics)
      + Len(tables.job_applications) + Len(tables.skill_assessments)
      + Len(tables.chat_history)

EnhancedResumeGeneration ==
    /\ Idle
    /\ Rows(db) < MaxRows
    /\ \E form \in Forms, env \in Environments :
          LET r == enhanced_resume_generation(form, Session, env)
          IN  /\ result' = [op |-> "enhanced_resume_generation",
                            ret |-> [f \in DOMAIN r \ {"st"} |-> r[f]]]
              /\ db_manager' = r.st.db_manager
              /\ current_user_id' = r.st.current_user_id
              /\ db' = r.st.db
    /\ UNCHANGED <<file_state, page_text, job_description, analysis, toolkit, calls, api>>

EnhancedCoverLetterGeneration ==
    /\ Idle
    /\ Rows(db) < MaxRows
    /\ \E form \in Forms, env \in Environments :
          LET r == enhanced_cover_letter_generation(form, Session, env)
          IN  /\ result' = [op |-> "enhanced_cover_letter_generation",
                            ret |-> [f \in DOMAIN r \ {"st"} |-> r[f]]]
              /\ db_manager' = r.st.db_manager
              /\ current_user_id' = r.st.current_user_id
              /\ db' = r.st.db
    /\ UNCHANGED <<file_state, page_text, job_description, analysis, toolkit, calls, api>>

InitStorage ==
    /\ file_state = "none"
    /\ page_text = <<>>
    /\ job_description = <<>>
    /\ analysis = NoAnalysis
    /\ result = NoResult
    /\ SingleCaller
    /\ NoSession
    /\ NoQuery

NextStorage ==
    \/ EnhancedResumeGeneration
    \/ EnhancedCoverLetterGeneration
    \/ Return

SpecStorage == InitStorage /\ [][NextStorage]_vars

(***************************************************************************)
(* ProductionCareerToolkit.query_huggingface_api: one step per statement   *)
(* that talks to the server or leaves the loop.                            *)
(***************************************************************************)
\* what one requests.post(..., timeout=30) can end in: a status code (the
\* body of a 200 decodes as JSON or does not), requests.exceptions.Timeout,
\* or another exception
Responses == {"200", "200 not JSON", "503", "500", "Timeout", "ConnectionError"}

MaxRetries == 3
\* the max_retries a caller passes (3 when it passes none)
RetryBudgets == 1..MaxRetries

NoRet == [kind |-> "none"]
ErrorValue(message) == [kind |-> "error", value |-> message]
JsonValue(body) == [kind |-> "json", value |-> body]

\* as LoopContinues, for range(max_retries + 1)
LoopContinues_OneMore(attempt, max_retries) == attempt <= max_retries

\* for attempt in range(max_retries)
LoopContinues(attempt, max_retries) == attempt < max_retries

\* as IsFinalAttempt, comparing with max_retries
IsFinalAttempt_Late(attempt, max_retries) == attempt = max_retries

\* if attempt == max_retries - 1
IsFinalAttempt(attempt, max_retries) == attempt = max_retries - 1

QueryDone(frame, ret) == [frame EXCEPT !.pc = "done", !.ret = ret]
NextAttempt(frame) == [frame EXCEPT !.attempt = @ + 1]

\* the body of the loop, on the response that requests.post ended in
AfterResponse(frame, response) ==
    CASE response = "200" -> QueryDone(frame, JsonValue("body"))
      [] response = "200 not JSON" -> QueryDone(frame, ErrorValue("JSONDecodeError"))
      [] response = "503" -> NextAttempt(frame)
      [] response = "Timeout" ->
           IF IsFinalAttempt(frame.attempt, frame.max_retries)
           THEN QueryDone(frame, ErrorValue("Request timeout"))
           ELSE NextAttempt(frame)
      [] response = "ConnectionError" -> QueryDone(frame, ErrorValue("ConnectionError"))
      [] OTHER -> QueryDone(frame, ErrorValue("API Error: " \o response))

\* the call, up to the head of the loop
QueryHuggingfaceApi ==
    /\ Idle
    /\ api.pc = "idle"
    /\ \E max_retries \in RetryBudgets :
          LET frame == [pc |-> "loop", hf_token |-> toolkit.hf_token,
                        max_retries |-> max_retries, attempt |-> 0,
                        responses |-> <<>>, ret |-> NoRet]
          IN  api' = IF toolkit.hf_token = ""
                     THEN QueryDone(frame,
                                    ErrorValue("Hugging Face token not available"))
                     ELSE frame
    /\ UNCHANGED <<file_state, page_text, job_description, analysis, result,
                   toolkit, calls, db_manager, current_user_id, db>>

\* one turn of the loop: the request and what follows from its response
Post ==
    /\ api.pc = "loop"
    /\ LoopContinues(api.attempt, api.max_retries)
    /\ \E response \in Responses :
          api' = AfterResponse([api EXCEPT !.responses = Append(@, response)],
                               response)
    /\ UNCHANGED <<file_state, page_text, job_description, analysis, result,
                   toolkit, calls, db_manager, current_user_id, db>>

\* the loop has run out
Exhausted ==
    /\ api.pc = "loop"
    /\ ~LoopContinues(api.attempt, api.max_retries)
    /\ api' = QueryDone(api, ErrorValue("Max retries exceeded"))
    /\ UNCHANGED <<file_state, page_text, job_description, analysis, result,
                   toolkit, calls, db_manager, current_user_id, db>>

\* the caller has taken the value
ReturnQuery ==
    /\ api.pc = "done"
    /\ api' = [pc |-> "idle"]
    /\ result' = [op |-> "query_huggingface_api", ret |-> api.ret]
    /\ UNCHANGED <<file_state, page_text, job_description, analysis,
                   toolkit, calls, db_manager, current_user_id, db>>

InitQuery ==
    /\ file_state = "none"
    /\ page_text = <<>>
    /\ job_description = <<>>
    /\ analysis = NoAnalysis
    /\ result = NoResult
    /\ toolkit \in ToolkitStates
    /\ calls = NoCalls
    /\ NoSession
    /\ NoQuery

NextQuery ==
    \/ QueryHuggingfaceApi
    \/ Post
    \/ Exhausted
    \/ ReturnQuery
    \/ Return

SpecQuery == InitQuery /\ [][NextQuery]_vars

\* the thread that runs the call keeps running
SpecQueryFair == SpecQuery /\ WF_vars(Post \/ Exhausted)

(***************************************************************************)
(* ProductionCareerToolkit.create_career_chatbot_response, from the return *)
(* of query_huggingface_api on.                                            *)
(***************************************************************************)
\* what the decoded body of a 200 response can be: a list whose first item
\* is a dict, a dict with or without the key "error", a list of other items
Bodies == {"list of dicts", "dict with error", "dict", "list of strings"}

\* result[0].get("generated_text", "").strip()
GeneratedTexts ==
    {"", "Tailor your resume to the role.",
     "A common error is a resume without numbers."}

\* the texts of the model in which "error" occurs (the texts of
\* generate_ai_content for an unavailable service and for a failed
\* generation do not hold it)
TextsWithError == {"A common error is a resume without numbers."}

\* "error" in response.lower()
ContainsError(text) == text \in TextsWithError

\* what generate_ai_content does with the value query_huggingface_api
\* returned: `"error" in result` holds for an error value and for a body
\* that is a dict with that key
AiOutcomeOf(ret, body) ==
    CASE ret.kind = "error" -> "unavailable"
      [] body = "dict with error" -> "unavailable"
      [] body = "list of dicts" -> "generated"
      [] body = "dict" -> "failed"
      [] OTHER -> "raises"

ChatContent(ai, generated) ==
    IF ai = "generated" THEN [exc |-> NoExc, text |-> generated]
    ELSE generate_ai_content(ai)

\* str.lower() on the words of the messages
ChatLower(w) ==
    CASE w = "CV" -> "cv"
      [] w = "Interview" -> "interview"
      [] w = "Review" -> "review"
      [] OTHER -> w

\* the words get_fallback_career_response looks for that occur inside a
\* lower-case word
Inside(w) ==
    CASE w = "resumes" -> {"resume"}
      [] w \in {"resume", "cv", "interview", "skills", "learning"} -> {w}
      [] OTHER -> {}

\* any(word in message_lower for word in words); "job search" is two words
\* of the message with a blank between them
HasAny(message, words) ==
    \/ \E i \in DOMAIN message : Inside(ChatLower(message[i])) \cap words # {}
    \/ /\ "job search" \in words
       /\ \E i \in 1..(Len(message) - 1) :
             ChatLower(message[i]) = "job" /\ ChatLower(message[i + 1]) = "search"

ResumeAnswer == "For resume advice, I recommend focusing on quantified achievements, relevant keywords, and clear formatting."
JobSearchAnswer == "Job search success comes from tailored applications, networking, and interview preparation."
SkillsAnswer == "Skill development should align with your career goals."
GeneralAnswer == "I'm here to help with career advice!"
FallbackAnswers == {ResumeAnswer, JobSearchAnswer, SkillsAnswer, GeneralAnswer}

get_fallback_career_response(message) ==
    IF HasAny(message, {"resume", "cv"}) THEN ResumeAnswer
    ELSE IF HasAny(message, {"interview", "job search"}) THEN JobSearchAnswer
    ELSE IF HasAny(message, {"skills", "learning"}) THEN SkillsAnswer
    ELSE GeneralAnswer

RephraseAnswer == "I'm here to help with your career questions! Could you please rephrase your question?"

create_career_chatbot_response(message, content) ==
    IF content.exc # NoExc THEN RephraseAnswer
    ELSE IF content.text = "" \/ ContainsError(content.text)
    THEN get_fallback_career_response(message)
    ELSE content.text

ChatMessages ==
    {<<"Review", "my", "CV">>, <<"resumes", "and", "Interview">>,
     <<"job", "search", "help">>, <<"job", "skills">>, <<"hello">>}

\* the handler, once its request to the API has ended
CreateCareerChatbotResponse ==
    /\ api.pc = "done"
    /\ \E message \in ChatMessages, body \in Bodies, generated \in GeneratedTexts :
          LET ai == AiOutcomeOf(api.ret, body)
          IN  result' = [op |-> "create_career_chatbot_response",
                         message |-> message,
                         ai |-> ai,
                         generated |-> generated,
                         ret |-> create_career_chatbot_response(
                                     message, ChatContent(ai, generated))]
    /\ api' = [pc |-> "idle"]
    /\ UNCHANGED <<file_state, page_text, job_description, analysis,
                   toolkit, calls, db_manager, current_user_id, db>>

NextChat ==
    \/ QueryHuggingfaceApi
    \/ Post
    \/ Exhausted
    \/ CreateCareerChatbotResponse
    \/ Return

SpecChat == InitQuery /\ [][NextChat]_vars

(***************************************************************************)
(* get_or_create_user_session run by the threads of the web interface, one *)
(* step per read or write of a global and per database call.               *)
(***************************************************************************)
\* the names the callbacks pass (None when the form has none)
SessionNames == {None, "Ann", "Bob"}

SessionFrame(name, pc, constructed, user_data, ret) ==
    [op |-> "get_or_create_user_session", name |-> name, pc |-> pc,
     constructed |-> constructed, user_data |-> user_data, ret |-> ret]

InSession(r) == calls[r].op = "get_or_create_user_session"
At(r, pc) == InSession(r) /\ calls[r].pc = pc
Goto(r, pc) == calls' = [calls EXCEPT ![r].pc = pc]

\* as SeesNoUser, without looking at the global
SeesNoUser_Always(r) == TRUE

\* if current_user_id is None
SeesNoUser(r) == current_user_id = None

\* a callback calls get_or_create_user_session(name)
CallSession(r) ==
    /\ calls[r].op = "none" \/ At(r, "done") \/ At(r, "raised")
    /\ \E name \in SessionNames :
          calls' = [calls EXCEPT ![r] =
                      SessionFrame(name, "test_user", FALSE, None, None)]
    /\ UNCHANGED <<file_state, page_text, job_description, analysis, result,
                   toolkit, db_manager, current_user_id, db, api>>

TestUser(r) ==
    /\ At(r, "test_user")
    /\ Goto(r, IF SeesNoUser(r) THEN "test_manager" ELSE "return")
    /\ UNCHANGED <<file_state, page_text, job_description, analysis, result,
                   toolkit, db_manager, current_user_id, db, api>>

\* get_db_manager: if db_manager is None
TestManager(r) ==
    /\ At(r, "test_manager")
    /\ Goto(r, IF db_manager = None THEN "construct" ELSE "create_user")
    /\ UNCHANGED <<file_state, page_text, job_description, analysis, result,
                   toolkit, db_manager, current_user_id, db, api>>

\* db_manager = DatabaseManager(): a failed connection is raised again
Construct(r) ==
    /\ At(r, "construct")
    /\ \E connect \in DbOutcomes :
          IF connect = "error"
          THEN Goto(r, "raised") /\ UNCHANGED db_manager
          ELSE /\ db_manager' = "DatabaseManager"
               /\ calls' = [calls EXCEPT ![r].pc = "create_user",
                                          ![r].constructed = TRUE]
    /\ UNCHANGED <<file_state, page_text, job_description, analysis, result,
                   toolkit, current_user_id, db, api>>

\* user_data = db.create_or_get_user(name=name)
CreateUser(r) ==
    /\ At(r, "create_user")
    /\ \E outcome \in DbOutcomes :
          LET u == create_or_get_user(db, calls[r].name, None, None, outcome)
          IN  /\ db' = u.tables
              /\ calls' = [calls EXCEPT ![r].pc = "assign",
                                         ![r].user_data = u.user_id]
    /\ UNCHANGED <<file_state, page_text, job_description, analysis, result,
                   toolkit, db_manager, current_user_id, api>>

\* if user_data: current_user_id = user_data['user_id']
Assign(r) ==
    /\ At(r, "assign")
    /\ current_user_id' = IF calls[r].user_data # None THEN calls[r].user_data
                           ELSE current_user_id
    /\ Goto(r, "return")
    /\ UNCHANGED <<file_state, page_text, job_description, analysis, result,
                   toolkit, db_manager, db, api>>

\* return current_user_id
ReturnSession(r) ==
    /\ At(r, "return")
    /\ calls' = [calls EXCEPT ![r].pc = "done", ![r].ret = current_user_id]
    /\ UNCHANGED <<file_state, page_text, job_description, analysis, result,
                   toolkit, db_manager, current_user_id, db, api>>

InitSessions ==
    /\ file_state = "none"
    /\ page_text = <<>>
    /\ job_description = <<>>
    /\ analysis = NoAnalysis
    /\ result = NoResult
    /\ SingleCaller
    /\ NoSession
    /\ NoQuery

NextSessions ==
    \E r \in RequestIds :
        \/ CallSession(r)
        \/ TestUser(r)
        \/ TestManager(r)
        \/ Construct(r)
        \/ CreateUser(r)
        \/ Assign(r)
        \/ ReturnSession(r)

SpecSessions == InitSessions /\ [][NextSessions]_vars

(***************************************************************************)
(* The write operations of DatabaseManager, called one after another on    *)
(* the constructed instance.                                               *)
(***************************************************************************)
save_job_application(tables, user_id, outcome) ==
    InsertDocument(tables, "job_applications",
                   [user_id |-> user_id, application_status |-> "draft"], outcome)

save_skill_assessment(tables, user_id, outcome) ==
    InsertDocument(tables, "skill_assessments",
                   [user_id |-> user_id, skill_gap_score |-> 0], outcome)

save_chat_message(tables, user_id, user_message, ai_response, outcome) ==
    InsertDocument(tables, "chat_history",
                   [user_id |-> user_id, user_message |-> user_message,
                    ai_response |-> ai_response],
                   outcome)

\* UPDATE resumes SET analysis_score = ... WHERE id = resume_id: True when
\* the statement ran, also when no row has that id
update_resume_analysis(tables, resume_id, analysis_score, outcome) ==
    IF outcome = "error" THEN [id |-> FALSE, tables |-> tables]
    ELSE [id |-> TRUE,
          tables |-> IF resume_id \in DOMAIN tables.resumes
                     THEN [tables EXCEPT !.resumes[resume_id].analysis_score =
                                            analysis_score]
                     ELSE tables]

WriteMethods ==
    {"save_resume", "save_cover_letter", "save_job_application",
     "save_skill_assessment", "save_chat_message", "log_analytics",
     "update_resume_analysis", "create_or_get_user"}

\* what the database does during a call: the statements succeed; a
\* statement raises and the connection stays usable; the connection is lost,
\* so that the statement raises and so does rollback() in the handler
WriteOutcomes == DbOutcomes \cup {"connection lost"}

Emails == {None, "ann@x.org", "Ann@X.org"}
UserArgs == [name : {None, "Ann"}, email : Emails, user_id : {None, "u42"}]
WriteArgs ==
    [user : UserArgs, user_id : {"u42"}, resume_id : {1, 2}, analysis_score : {85}]

\* the value returned and the tables after the method's try block, for a
\* connection that stays usable
WriteEffect(method, tables, args, outcome) ==
    CASE method = "save_resume" ->
           save_resume(tables, args.user_id, "resume.pdf", outcome)
      [] method = "save_cover_letter" ->
           save_cover_letter(tables, args.user_id, "cover_letter.pdf", outcome)
      [] method = "save_job_application" ->
           save_job_application(tables, args.user_id, outcome)
      [] method = "save_skill_assessment" ->
           save_skill_assessment(tables, args.user_id, outcome)
      [] method = "save_chat_message" ->
           save_chat_message(tables, args.user_id, "hello", "answer", outcome)
      [] method = "log_analytics" ->
           [id |-> None,
            tables |-> log_analytics(tables, args.user_id, "action", outcome)]
      [] method = "update_resume_analysis" ->
           update_resume_analysis(tables, args.resume_id, args.analysis_score,
                                  outcome)
      [] OTHER ->
           LET u == create_or_get_user(tables, args.user.name, args.user.email,
                                       args.user.user_id, outcome)
           IN  [id |-> u.user_id, tables |-> u.tables]

\* self.connection.rollback() in the except clause raises when the
\* connection is closed
RollbackRaises(outcome) == outcome = "connection lost"

\* the whole method: what reaches the caller, and how often commit() and
\* rollback() returned
WriteCall(method, tables, args, outcome) ==
    IF RollbackRaises(outcome)
    THEN [exc |-> "InterfaceError", commits |-> 0, rollbacks |-> 0,
          tables |-> tables]
    ELSE LET w == WriteEffect(method, tables, args,
                              IF outcome = "ok" THEN "ok" ELSE "error")
         IN  [exc |-> NoExc, ret |-> w.id,
              commits |-> IF outcome = "ok" THEN 1 ELSE 0,
              rollbacks |-> IF outcome = "ok" THEN 0 ELSE 1,
              tables |-> w.tables]

MaxTouches == 2

DatabaseWrite(method) ==
    /\ Idle
    /\ db_manager # None
    /\ Rows(db) + Cardinality(db.users) < MaxRows
    /\ \A u \in db.users : u.last_active < MaxTouches
    /\ \E args \in WriteArgs, outcome \in WriteOutcomes :
          LET w == WriteCall(method, db, args, outcome)
          IN  /\ result' = [f \in (DOMAIN w \ {"tables"}) \cup {"op", "args"} |->
                              CASE f = "op" -> method
                                [] f = "args" -> args
                                [] OTHER -> w[f]]
              /\ db' = w.tables
    /\ UNCHANGED <<file_state, page_text, job_description, analysis, toolkit,
                   calls, db_manager, current_user_id, api>>

InitWrites ==
    /\ file_state = "none"
    /\ page_text = <<>>
    /\ job_description = <<>>
    /\ analysis = NoAnalysis
    /\ result = NoResult
    /\ SingleCaller
    /\ db_manager = "DatabaseManager"
    /\ current_user_id = None
    /\ db = EmptyTables
    /\ NoQuery

NextWrites ==
    \/ \E method \in WriteMethods : DatabaseWrite(method)
    \/ Return

SpecWrites == InitWrites /\ [][NextWrites]_vars

(***************************************************************************)
(* enhanced_resume_analysis, enhanced_ats_calculation and                  *)
(* enhanced_skill_gap_analysis (database_interface.py)                     *)
(***************************************************************************)
AnalysisHandlers ==
    {"enhanced_resume_analysis", "enhanced_ats_calculation",
     "enhanced_skill_gap_analysis"}

\* the event names of a handler
EventPrefix(handler) ==
    CASE handler = "enhanced_resume_analysis" -> "resume_analysis"
      [] handler = "enhanced_ats_calculation" -> "ats_calculation"
      [] OTHER -> "skill_gap_analysis"

\* what the operation under a handler can return: its message for missing
\* input, its message for a file without text or a role that is not in the
\* job database, its report, or its message for an exception
UnderlyingResults(handler) ==
    CASE handler = "enhanced_resume_analysis" ->
           {Message("Please upload a resume file to analyze."),
            Message("Could not extract sufficient text from the resume."),
            Report("report"),
            ErrorMessage("Error analyzing resume", "ValueError")}
      [] handler = "enhanced_ats_calculation" ->
           {Message(PleaseUpload), Message(CouldNotExtract), Report("report"),
            ErrorMessage(ErrorCalculating, "ValueError")}
      [] OTHER ->
           {Message("Please enter your current skills and target job role."),
            Message("Job role not found."),
            Report("report"),
            ErrorMessage("Error finding skill gaps", "ValueError")}

\* "Error" in str(result): of the texts above, those of the except clauses
HasErrorWord(ret) ==
    /\ ret.kind = "message"
    /\ ret.msg \in {"Error analyzing resume", ErrorCalculating,
                     "Error finding skill gaps"}

\* if user_id: log "..._started" (and, for the skill gaps, save the
\* assessment)
AnalysisStarted(handler, tables, user_id, env) ==
    IF user_id = None THEN tables
    ELSE LET started == log_analytics(tables, user_id,
                                      EventPrefix(handler) \o "_started",
                                      env.log_started)
         IN  IF handler = "enhanced_skill_gap_analysis"
             THEN save_skill_assessment(started, user_id, env.save).tables
             ELSE started

\* if user_id and result and "Error" not in str(result): log "..._completed"
AnalysisCompleted(handler, tables, user_id, ret, env) ==
    IF user_id # None /\ ~HasErrorWord(ret)
    THEN log_analytics(tables, user_id, EventPrefix(handler) \o "_completed",
                       env.log_done)
    ELSE tables

enhanced_analysis(handler, underlying, st, env) ==
    LET s == get_or_create_user_session(None, st, env)
    IN  IF s.exc # NoExc THEN [exc |-> s.exc, st |-> st]
        ELSE LET user_id == s.st.current_user_id
                 started == AnalysisStarted(handler, s.st.db, user_id, env)
             IN  [exc |-> NoExc, ret |-> underlying,
                  st |-> [s.st EXCEPT !.db =
                            AnalysisCompleted(handler, started, user_id,
                                              underlying, env)]]

EnhancedAnalysis(handler) ==
    /\ Idle
    /\ Rows(db) < MaxRows
    /\ \E underlying \in UnderlyingResults(handler), env \in Environments :
          LET r == enhanced_analysis(handler, underlying, Session, env)
          IN  /\ result' = [f \in (DOMAIN r \ {"st"}) \cup {"op"} |->
                              IF f = "op" THEN handler ELSE r[f]]
              /\ db_manager' = r.st.db_manager
              /\ current_user_id' = r.st.current_user_id
              /\ db' = r.st.db
    /\ UNCHANGED <<file_state, page_text, job_description, analysis, toolkit,
                   calls, api>>

NextAnalytics ==
    \/ \E handler \in AnalysisHandlers : EnhancedAnalysis(handler)
    \/ Return

SpecAnalytics == InitStorage /\ [][NextAnalytics]_vars

(***************************************************************************)
(* enhanced_chatbot_interface (database_interface.py)                      *)
(***************************************************************************)
MaxHistory == 4
\* the chat so far: n exchanges, oldest first
HistoryOf(n) == [i \in 1..n |-> <<"question " \o ToString(i), "answer " \o ToString(i)>>]
Histories == {HistoryOf(n) : n \in 0..MaxHistory}

\* build_chat_context: the exchanges that go into the prompt,
\* history[-3:] if len(history) > 3 else history
build_chat_context(history) ==
    IF Len(history) > 3 THEN SubSeq(history, Len(history) - 2, Len(history))
    ELSE history

ChatEnvironments ==
    [connect : DbOutcomes, create_user : DbOutcomes, save : WriteOutcomes,
     log_done : DbOutcomes]

\* if user_id: save_chat_message, then log "chat_message_sent"
ChatSaved(tables, user_id, message, bot_response, env) ==
    IF user_id = None THEN tables
    ELSE log_analytics(save_chat_message(tables, user_id, message, bot_response,
                                         env.save).tables,
                       user_id, "chat_message_sent", env.log_done)

enhanced_chatbot_interface(message, history, content, st, env) ==
    LET s == get_or_create_user_session(None, st, env)
        bot_response == create_career_chatbot_response(message, content)
    IN  IF s.exc # NoExc THEN [exc |-> s.exc, st |-> st]
        ELSE IF s.st.current_user_id # None /\ RollbackRaises(env.save)
        THEN [exc |-> "InterfaceError", st |-> s.st]
        ELSE [exc |-> NoExc,
              context |-> build_chat_context(history),
              history |-> Append(history, <<message, bot_response>>),
              input |-> "",
              st |-> [s.st EXCEPT !.db =
                        ChatSaved(@, s.st.current_user_id, message,
                                  bot_response, env)]]

MaxChats == 1
\* the messages typed into the chat
ChatInputs == {<<"hello">>, <<"Review", "my", "CV">>}

EnhancedChatbotInterface ==
    /\ Idle
    /\ Len(db.chat_history) < MaxChats
    /\ Len(db.analytics) < MaxChats
    /\ \E message \in ChatInputs, history \in Histories, ai \in AiOutcomes,
          generated \in GeneratedTexts, env \in ChatEnvironments :
          LET r == enhanced_chatbot_interface(message, history,
                                              ChatContent(ai, generated),
                                              Session, env)
          IN  /\ result' = [op |-> "enhanced_chatbot_interface",
                            message |-> message,
                            before |-> history,
                            ret |-> [f \in DOMAIN r \ {"st"} |-> r[f]]]
              /\ db_manager' = r.st.db_manager
              /\ current_user_id' = r.st.current_user_id
              /\ db' = r.st.db
    /\ UNCHANGED <<file_state, page_text, job_description, analysis, toolkit,
                   calls, api>>

NextChatStorage ==
    \/ EnhancedChatbotInterface
    \/ Return

SpecChatStorage == InitStorage /\ [][NextChatStorage]_vars

(***************************************************************************)
(* Properties                                                              *)
(***************************************************************************)
ResumeText == extract_text_from_pdf(file_state, page_text)

\* the entry point got past its two input checks
ReachesVectorizer ==
    /\ file_state # "none"
    /\ ~IsBlank(job_description)
    /\ ~IsEmptyString(ResumeText)

\* a vectorizer of calculate_ats_score finds no term: the one fitted on both
\* texts, or one of the two that extract_keywords fits on a single text
VectorizerFails ==
    /\ ReachesVectorizer
    /\ Features(ResumeText) = {} \/ Features(job_description) = {}

\* the one vectorizer of calculate_ats_score_advanced finds no term
VectorizerFailsAdvanced ==
    /\ ReachesVectorizer
    /\ Features(ResumeText) \cup Features(job_description) = {}

InPercentRange(v) == 0 <= v /\ v <= 100 * 100

\* the same for a float of the similarity computation
InFloatPercentRange(v) == InPercentRange(v.pct) /\ ~v.above

\* r is floor(100 * 100 * num / den)
IsPercentOf(r, num, den) ==
    r * den <= 100 * 100 * num /\ 100 * 100 * num < (r + 1) * den

C3_EmptyJobKeywordsRateZero ==
    /\ (result.op = "create_ats_report" /\ result.job_keywords = <<>>) =>
          result.ret.exc = NoExc /\ result.ret.report.match_rate = 0
    /\ (result.op = "calculate_ats_score" /\ ReachesVectorizer
          /\ Features(job_description) = {}) =>
          result.ret.kind = "report" /\ result.ret.report.match_rate = 0
    /\ (result.op = "calculate_keyword_match"
          /\ AlphaTokens(job_description) \ common_words = {}) =>
          result.ret = 0

\* C4: in every report of calculate_ats_score, matched is the job keywords
\* that are resume keywords, missing is the job keywords that are not, the
\* two are disjoint and make up the job keywords, and the match rate is
\* |matched| / |job keywords| * 100.
C4_KeywordOverlap ==
    (result.op = "calculate_ats_score" /\ result.ret.kind = "report") =>
        \E jk \in extract_keywords(job_description),
           rk \in extract_keywords(ResumeText) :
            /\ jk.exc = NoExc
            /\ rk.exc = NoExc
            /\ LET J == ToSet(jk.keywords)
                   R == ToSet(rk.keywords)
                   rep == result.ret.report
               IN  /\ rep.job_keyword_count = Cardinality(J)
                   /\ rep.matching_count = Cardinality(J \cap R)
                   /\ rep.missing_count = Cardinality(J \ R)
                   /\ rep.matching_shown \subseteq J \cap R
                   /\ rep.missing_shown \subseteq J \ R
                   /\ Cardinality(J) <= 15 =>
                         /\ rep.matching_shown = J \cap R
                         /\ rep.missing_shown = J \ R
                         /\ rep.matching_shown \cup rep.missing_shown = J
                   /\ rep.matching_shown \cap rep.missing_shown = {}
                   /\ IsPercentOf(rep.match_rate, Cardinality(J \cap R),
                                  Cardinality(J))

C4_Witness ==
    /\ result.op = "calculate_ats_score"
    /\ result.ret.kind = "report"
    /\ result.ret.report.matching_count > 0
    /\ result.ret.report.missing_count > 0

\* C5: the composite score of calculate_ats_score_advanced is
\* 0.6 * TF-IDF similarity + 0.4 * raw token overlap, and lies in [0, 100]
\* whenever both components do.
C5_CompositeScore ==
    (result.op = "calculate_ats_score_advanced" /\ result.ret.kind = "report") =>
        LET rep == result.ret.report
        IN  /\ rep.tfidf_score =
                 calculate_tfidf_similarity(ResumeText, job_description).value
            /\ rep.keyword_score =
                 calculate_keyword_match(ResumeText, job_description)
            /\ rep.ats_score = 6 * rep.tfidf_score.pct + 4 * rep.keyword_score
            /\ (InFloatPercentRange(rep.tfidf_score)
                  /\ InPercentRange(rep.keyword_score))
                  => (0 <= rep.ats_score /\ rep.ats_score <= 10 * 100 * 100)

C5_Witness ==
    /\ result.op = "calculate_ats_score_advanced"
    /\ result.ret.kind = "report"
    /\ result.ret.report.tfidf_score.pct > 0
    /\ result.ret.report.keyword_score > result.ret.report.tfidf_score.pct

\* C6: calculate_keyword_match returns |job_tokens /\ resume_tokens| /
\* |job_tokens| (as a percentage; 0 when job_tokens is empty) with the
\* common words removed from both token sets, although the code removes them
\* from the job tokens only.
C6_StoplistFromBoth ==
    result.op = "calculate_keyword_match" =>
        LET job_tokens == AlphaTokens(job_description) \ common_words
            resume_tokens == AlphaTokens(page_text) \ common_words
        IN  IF job_tokens = {} THEN result.ret = 0
            ELSE IsPercentOf(result.ret,
                             Cardinality(job_tokens \cap resume_tokens),
                             Cardinality(job_tokens))

C6_Witness ==
    /\ result.op = "calculate_keyword_match"
    /\ AlphaTokens(page_text) \cap common_words # {}
    /\ AlphaTokens(job_description) \cap common_words # {}
    /\ 0 < result.ret
    /\ result.ret < 100 * 100

\* C7 as stated: every similarity and every match rate the engine returns
\* is between 0 and 100.  The match rates are; the similarity of two
\* documents whose tf-idf rows point the same way can come out of the
\* float64 arithmetic just above 100.
C7_Bounds ==
    /\ (result.op = "calculate_tfidf_similarity" /\ result.ret.exc = NoExc) =>
          InFloatPercentRange(result.ret.value)
    /\ result.op = "calculate_keyword_match" => InPercentRange(result.ret)
    /\ (result.op = "calculate_ats_score" /\ result.ret.kind = "report") =>
          /\ InFloatPercentRange(result.ret.report.ats_score)
          /\ InPercentRange(result.ret.report.match_rate)
    /\ (result.op = "calculate_ats_score_advanced" /\ result.ret.kind = "report") =>
          /\ InFloatPercentRange(result.ret.report.tfidf_score)
          /\ InPercentRange(result.ret.report.keyword_score)
    /\ (result.op = "create_ats_report" /\ result.ret.exc = NoExc) =>
          InPercentRange(result.ret.report.match_rate)

\* C8: extract_keywords returns at most 20 distinct terms of the document,
\* in order of non-increasing TF-IDF weight, each of weight above 0.1, and
\* no term it leaves out weighs more than one it returns.
C8_TopKeywords ==
    (result.op = "extract_keywords" /\ result.ret.exc = NoExc) =>
        LET kw == result.ret.keywords
            tf == TermCounts(result.text)
        IN  /\ Len(kw) <= 20
            /\ \A i \in 1..Len(kw) : kw[i] \in DOMAIN tf
            /\ \A i, j \in 1..Len(kw) :
                  i < j => kw[i] # kw[j] /\ tf[kw[i]] >= tf[kw[j]]
            /\ \E K \in KeptVocabularies(result.text) :
                  /\ ToSet(kw) \subseteq K
                  /\ \A i \in 1..Len(kw) :
                        10 * 10 * tf[kw[i]] * tf[kw[i]]
                          > SumOver(K, [f \in K |-> tf[f] * tf[f]])
            /\ \A g \in DOMAIN tf \ ToSet(kw) :
                  \A i \in 1..Len(kw) : tf[g] <= tf[kw[i]]

C8_Witness ==
    /\ result.op = "extract_keywords"
    /\ result.ret.exc = NoExc
    /\ Len(result.ret.keywords) = 20
    /\ Cardinality(Features(result.text)) > 20
    /\ \E i, j \in 1..20 :
          TermCounts(result.text)[result.ret.keywords[i]]
            > TermCounts(result.text)[result.ret.keywords[j]]

\* C9 as stated: for the job description "Python SQL AWS Docker" and the
\* resume "Experienced with Python and Docker projects", matched holds
\* python and docker, missing holds sql and aws, and the match rate is 50.
C9_MatchRateFifty ==
    (result.op = "calculate_ats_score" /\ file_state = "ok"
       /\ page_text = ResumeExample /\ job_description = JobExample) =>
        /\ result.ret.kind = "report"
        /\ {<<"python">>, <<"docker">>} \subseteq result.ret.report.matching_shown
        /\ {<<"sql">>, <<"aws">>} \subseteq result.ret.report.missing_shown
        /\ result.ret.report.match_rate = 50 * 100

\* C9 amended: for these two documents matched is exactly python and docker,
\* missing is sql, aws and the bigrams "python sql", "sql aws", "aws docker",
\* and the match rate is 2 of 7 job keywords, 28.57.
C9_MatchRateTwoOfSeven ==
    (result.op = "calculate_ats_score" /\ file_state = "ok"
       /\ page_text = ResumeExample /\ job_description = JobExample) =>
        /\ result.ret.kind = "report"
        /\ result.ret.report.matching_shown = {<<"python">>, <<"docker">>}
        /\ result.ret.report.missing_shown =
             {<<"sql">>, <<"aws">>, <<"python", "sql">>, <<"sql", "aws">>,
              <<"aws", "docker">>}
        /\ result.ret.report.job_keyword_count = 7
        /\ result.ret.report.match_rate = 2857

C9_Witness ==
    /\ result.op = "calculate_ats_score"
    /\ file_state = "ok"
    /\ page_text = ResumeExample
    /\ job_description = JobExample
    /\ result.ret.kind = "report"

\* C10: each of the six sub-scores stays within its budget (40, 20, 15, 10,
\* 10, 5), and calculate_resume_score returns the whole points of their sum,
\* an integer between 0 and 100.
C10_ResumeScore ==
    /\ 0 <= SectionsPoints2(analysis) /\ SectionsPoints2(analysis) <= 2 * 40
    /\ 0 <= WordCountPoints2(analysis) /\ WordCountPoints2(analysis) <= 2 * 20
    /\ 0 <= SkillsPoints2(analysis) /\ SkillsPoints2(analysis) <= 2 * 15
    /\ 0 <= ActionVerbPoints2(analysis) /\ ActionVerbPoints2(analysis) <= 2 * 10
    /\ 0 <= QuantifiedPoints2(analysis) /\ QuantifiedPoints2(analysis) <= 2 * 10
    /\ 0 <= ContactPoints2(analysis) /\ ContactPoints2(analysis) <= 2 * 5
    /\ result.op = "calculate_resume_score" =>
          LET sum2 == SectionsPoints2(analysis) + WordCountPoints2(analysis)
                        + SkillsPoints2(analysis) + ActionVerbPoints2(analysis)
                        + QuantifiedPoints2(analysis) + ContactPoints2(analysis)
          IN  /\ result.ret \in 0..100
              /\ 2 * result.ret <= sum2
              /\ sum2 < 2 * result.ret + 2

C10_Witness ==
    /\ result.op = "calculate_resume_score"
    /\ analysis.action_verbs = 7
    /\ analysis.quantified_achievements > 5
    /\ result.ret = 100

\* C11: with the other fields of the analysis record fixed, a larger
\* action_verbs or quantified_achievements never gives a smaller
\* calculate_resume_score, and once the sub-score of the field is at its cap
\* of 10 a larger value gives the same score.
C11_ScoreMonotone ==
    result.op = "calculate_resume_score" =>
        /\ \A n \in analysis.action_verbs..(MaxActionVerbs + 1) :
              LET more == [analysis EXCEPT !.action_verbs = n]
              IN  /\ calculate_resume_score(more) >= result.ret
                  /\ ActionVerbPoints2(analysis) = 2 * 10 =>
                        calculate_resume_score(more) = result.ret
        /\ \A n \in analysis.quantified_achievements..(MaxQuantified + 1) :
              LET more == [analysis EXCEPT !.quantified_achievements = n]
              IN  /\ calculate_resume_score(more) >= result.ret
                  /\ QuantifiedPoints2(analysis) = 2 * 10 =>
                        calculate_resume_score(more) = result.ret

C11_Witness ==
    /\ result.op = "calculate_resume_score"
    /\ analysis.quantified_achievements = 5
    /\ analysis.action_verbs = 2
    /\ calculate_resume_score([analysis EXCEPT !.action_verbs = 3]) > result.ret
    /\ calculate_resume_score([analysis EXCEPT !.quantified_achievements = 6])
          = result.ret

\* C12: in both perfection-score calculators overall is exactly the sum of
\* the five sub-scores, each sub-score is within its maximum (25, 25, 20,
\* 15, 15), and overall is between 0 and 100.
C12_OverallIsSum ==
    /\ result.op = "calculate_detailed_scores" =>
          LET s == result.ret
          IN  /\ s.overall = s.structure + s.content + s.keywords
                               + s.formatting + s.grammar
              /\ 0 <= s.structure /\ s.structure <= 4 * 25
              /\ 0 <= s.content /\ s.content <= 4 * 25
              /\ 0 <= s.keywords /\ s.keywords <= 4 * 20
              /\ 0 <= s.formatting /\ s.formatting <= 4 * 15
              /\ 0 <= s.grammar /\ s.grammar <= 4 * 15
              /\ 0 <= s.overall /\ s.overall <= 4 * 100
    /\ result.op = "calculate_detailed_perfection_scores" =>
          LET s == result.ret
          IN  /\ s.overall = s.structure + s.content + s.keywords
                               + s.formatting + s.professionalism
              /\ 0 <= s.structure /\ s.structure <= 25
              /\ 0 <= s.content /\ s.content <= 25
              /\ 0 <= s.keywords /\ s.keywords <= 20
              /\ 0 <= s.formatting /\ s.formatting <= 15
              /\ 0 <= s.professionalism /\ s.professionalism <= 15
              /\ 0 <= s.overall /\ s.overall <= 100

C12_Witness ==
    /\ result.op = "calculate_detailed_perfection_scores"
    /\ (analysis.action_verbs * 2) + (analysis.quantified_achievements * 3) > 25
    /\ Len(analysis.skills_found) * 2 > 20
    /\ result.ret.overall = 100

\* C13: the similarity is symmetric: calculate_tfidf_similarity on the two
\* documents in the other order returns the same value, or raises the same
\* exception.
C13_Symmetric ==
    result.op = "calculate_tfidf_similarity" =>
        result.ret = calculate_tfidf_similarity(job_description, page_text)

C13_Witness ==
    /\ result.op = "calculate_tfidf_similarity"
    /\ result.ret.exc = NoExc
    /\ Features(page_text) # Features(job_description)
    /\ Cardinality(Features(page_text)) # Cardinality(Features(job_description))
    /\ 0 < result.ret.value.pct

\* C15 as stated: for a document with a term, the similarity of the document
\* with itself is 100, the largest value there is, and the similarity of the
\* document with any other is not larger.
C15_SelfSimilarityIsMax ==
    (result.op = "calculate_tfidf_similarity" /\ Features(page_text) # {}) =>
        LET self == calculate_tfidf_similarity(page_text, page_text).value
        IN  /\ self = [pct |-> 100 * 100, above |-> FALSE]
            /\ result.ret.exc = NoExc
            /\ result.ret.value.pct <= self.pct
            /\ result.ret.value.above => self.above

\* C17 as stated: whenever enhanced_resume_generation (or
\* enhanced_cover_letter_generation) gets a PDF path from the generator, the
\* call saves the document and logs the event "resume_generated"
\* ("cover_letter_generated") after the event "..._generation_started".
C17_SavedWhenGenerated ==
    [][/\ (result'.op = "enhanced_resume_generation" /\ result.op = "none"
            /\ result'.ret.exc = NoExc /\ result'.ret.pdf_path # None)
           => /\ Len(db'.resumes) = Len(db.resumes) + 1
              /\ db'.resumes[Len(db'.resumes)].pdf_path = result'.ret.pdf_path
              /\ Len(db'.analytics) = Len(db.analytics) + 2
              /\ db'.analytics[Len(db.analytics) + 1].action_type
                    = "resume_generation_started"
              /\ db'.analytics[Len(db.analytics) + 2].action_type
                    = "resume_generated"
       /\ (result'.op = "enhanced_cover_letter_generation" /\ result.op = "none"
            /\ result'.ret.exc = NoExc /\ result'.ret.pdf_path # None)
           => /\ Len(db'.cover_letters) = Len(db.cover_letters) + 1
              /\ db'.cover_letters[Len(db'.cover_letters)].pdf_path
                    = result'.ret.pdf_path
              /\ Len(db'.analytics) = Len(db.analytics) + 2
              /\ db'.analytics[Len(db.analytics) + 1].action_type
                    = "cover_letter_generation_started"
              /\ db'.analytics[Len(db.analytics) + 2].action_type
                    = "cover_letter_generated"]_vars

\* what the operation returns when it is called alone on these arguments
ScoreOf(op, args) ==
    IF op = "calculate_tfidf_similarity"
    THEN calculate_tfidf_similarity(args.resume_text, args.job_description)
    ELSE calculate_keyword_match(args.resume_text, args.job_description)

C16_SideEffectFree ==
    [][/\ toolkit' = toolkit
       /\ \A r \in RequestIds :
             /\ (calls[r].op \in ScoringOps /\ calls'[r].op \in ScoringOps)
                   => calls'[r].args = calls[r].args
             /\ calls'[r] # calls[r]
                   => \A q \in RequestIds \ {r} : calls'[q] = calls[q]
             /\ (calls[r].op \in ScoringOps /\ calls[r].pc = "called"
                    /\ calls'[r].op \in ScoringOps /\ calls'[r].pc = "done")
                   => calls'[r].ret \in ScoringOutcomes(calls[r], toolkit)]_vars

C16_Witness ==
    /\ calls["r1"].op = "calculate_resume_score"
    /\ calls["r1"].pc = "done"
    /\ calls["r1"].args.analysis # NoAnalysis
    /\ calls["r1"].ret > 0
    /\ calls["r2"].op = "extract_keywords"
    /\ calls["r2"].pc = "done"
    /\ calls["r2"].ret.exc = NoExc

\* what the server answered to the attempts of the call
Requests == IF api.pc = "idle" THEN 0 ELSE Len(api.responses)
LastResponse == api.responses[Len(api.responses)]

\* C18: query_huggingface_api always terminates and issues at most
\* max_retries HTTP requests whatever the server answers; without a token it
\* issues no request and returns an error value.
C18_TerminatesWithinBudget ==
    /\ [](api.pc # "idle" => Requests <= api.max_retries)
    /\ [](api.pc # "idle" /\ api.hf_token = ""
            => Requests = 0 /\ api.pc = "done" /\ api.ret.kind = "error")
    /\ (api.pc = "loop") ~> (api.pc = "done")

\* a call that used its whole budget has returned
C18_Witness ==
    /\ api.pc = "done"
    /\ api.max_retries = MaxRetries
    /\ Requests = MaxRetries

\* the responses that lead to another attempt
Retried == {"503", "Timeout"}
QueryReturned == api.pc = "done" /\ api.hf_token # ""

\* what happens on the responses other than 200
OtherOutcomes ==
    /\ api.pc = "loop" =>
          /\ api.attempt = Requests
          /\ \A i \in 1..Requests : api.responses[i] \in Retried
    /\ api.pc = "done" => api.ret.kind \in {"json", "error"}
    /\ QueryReturned =>
          /\ Requests >= 1
          /\ \A i \in 1..(Requests - 1) : api.responses[i] \in Retried
          /\ LastResponse \in Retried => Requests = api.max_retries
          /\ LastResponse = "500" => api.ret = ErrorValue("API Error: 500")
          /\ LastResponse = "ConnectionError" => api.ret = ErrorValue("ConnectionError")
          /\ LastResponse = "Timeout" <=> api.ret = ErrorValue("Request timeout")
          /\ LastResponse = "503" <=> api.ret = ErrorValue("Max retries exceeded")

\* C19 as stated: the first 200 response is returned at once, whatever its
\* body; the other responses as in C19 below
C19_First200Returned ==
    /\ OtherOutcomes
    /\ (QueryReturned /\ LastResponse \in {"200", "200 not JSON"})
          => api.ret.kind = "json"

\* C19: a 200 response whose body decodes is returned at once and one whose
\* body does not decode ends the call with an error; another status than 200
\* and 503, or an exception that is no timeout, ends the call with an error
\* and no further attempt; a 503 and a timeout before the final attempt lead
\* to another attempt; the result is "Request timeout" exactly when the final
\* allowed attempt timed out and "Max retries exceeded" exactly when it
\* returned 503; the call never raises.
C19_Outcomes ==
    /\ OtherOutcomes
    /\ QueryReturned =>
          /\ LastResponse = "200" <=> api.ret = JsonValue("body")
          /\ LastResponse = "200 not JSON" => api.ret = ErrorValue("JSONDecodeError")

\* a 503, then timeouts up to the final attempt
C19_Witness ==
    /\ QueryReturned
    /\ api.max_retries = MaxRetries
    /\ Requests = MaxRetries
    /\ api.responses[1] = "503"
    /\ LastResponse = "Timeout"
    /\ api.ret = ErrorValue("Request timeout")

\* C20 as stated: when the AI API is unavailable or returns an error,
\* create_career_chatbot_response returns one of the answers of
\* get_fallback_career_response for the user's message, not the
\* "AI service temporarily unavailable" text of generate_ai_content.
C20_FallbackWhenUnavailable ==
    (result.op = "create_career_chatbot_response" /\ result.ai = "unavailable")
        => /\ result.ret = get_fallback_career_response(result.message)
           /\ result.ret # generate_ai_content("unavailable").text

\* both callbacks have returned from calls they began while the globals
\* were None
BothReturned ==
    \A r \in RequestIds : At(r, "done") /\ calls[r].user_data # None

\* C21 as stated: however two callbacks that both call
\* get_or_create_user_session while the globals are None interleave, at most
\* one DatabaseManager is constructed, at most one user row is created, and
\* both end with the same user id.
C21_OneSessionUnderInterleaving ==
    /\ Cardinality({r \in RequestIds : InSession(r) /\ calls[r].constructed}) <= 1
    /\ Cardinality(db.users) <= 1
    /\ BothReturned => \A r, q \in RequestIds : calls[r].ret = calls[q].ret

\* a call that read current_user_id as None has not finished
Stale(r) ==
    InSession(r) /\ calls[r].pc \in {"test_manager", "construct", "create_user", "assign"}
NoStale == \A r \in RequestIds : ~Stale(r)
Steps(r) == calls'[r] # calls[r]

\* C22 as stated: once current_user_id is set it never changes and no user
\* is created any more
C22_IdNeverChanges ==
    [][current_user_id # None
         => current_user_id' = current_user_id /\ db'.users = db.users]_vars

\* C22: once current_user_id is set and no call that read it as None is
\* still running, it never changes: every later call returns that id and
\* makes no database access, whatever name is passed; a call whose user
\* creation fails leaves the id as it is, and a call that finds the id None
\* goes on to create the user.
C22_IdKeptAfterSettling ==
    [][/\ (current_user_id # None /\ NoStale)
           => /\ current_user_id' = current_user_id
              /\ db' = db
              /\ db_manager' = db_manager
              /\ \A r \in RequestIds :
                    /\ ~Stale(r)'
                    /\ (At(r, "return") /\ Steps(r))
                          => calls'[r].ret = current_user_id
       /\ \A r \in RequestIds :
             /\ (At(r, "assign") /\ calls[r].user_data = None /\ Steps(r))
                   => current_user_id' = current_user_id
             /\ (At(r, "test_user") /\ current_user_id = None /\ Steps(r))
                   => calls'[r].pc = "test_manager"]_vars

\* a call with another name has returned the id an earlier call set,
\* without creating a user
C22_Witness ==
    /\ Cardinality(db.users) = 1
    /\ NoStale
    /\ At("r1", "done") /\ calls["r1"].name = "Ann"
    /\ calls["r1"].user_data = current_user_id
    /\ At("r2", "done") /\ calls["r2"].name = "Bob"
    /\ calls["r2"].user_data = None
    /\ calls["r2"].ret = current_user_id

\* a write operation returns in this step
Wrote == result.op = "none" /\ result'.op \in WriteMethods
FailureValue(method) == IF method = "update_resume_analysis" THEN FALSE ELSE None

\* C23 as stated: every write operation of DatabaseManager either commits
\* exactly once and returns its success value, or on a database exception
\* rolls back, leaves the stored data unchanged and returns None (False for
\* update_resume_analysis); it never raises to the caller.
C23_WritesNeverRaise ==
    [][Wrote =>
         /\ result'.exc = NoExc
         /\ \/ /\ result'.commits = 1 /\ result'.rollbacks = 0
               /\ result'.op \notin {"log_analytics"}
                     => result'.ret # FailureValue(result'.op)
            \/ /\ result'.commits = 0 /\ result'.rollbacks = 1
               /\ db' = db
               /\ result'.ret = FailureValue(result'.op)]_vars

\* create_or_get_user returns a row in this step
GotUser ==
    /\ Wrote
    /\ result'.op = "create_or_get_user"
    /\ result'.exc = NoExc
    /\ result'.ret # None
RowsOf(users, id) == {u \in users : u.user_id = id}
\* the ids of the rows that were created for an e-mail address
EmailIds(users) == {u.user_id : u \in {v \in users : v.email # None}} \ {"u42"}

\* C24: create_or_get_user is idempotent for a fixed identity: after a call
\* that returns a row there is exactly one row with that user id; the call
\* inserted it if there was none, and otherwise changed nothing but the
\* row's last_active; the two spellings of one e-mail address give one id.
C24_Idempotent ==
    [][GotUser =>
         LET id == result'.ret
         IN  /\ Cardinality(RowsOf(db'.users, id)) = 1
             /\ [db' EXCEPT !.users = {}] = [db EXCEPT !.users = {}]
             /\ db'.users \ RowsOf(db'.users, id) = db.users \ RowsOf(db.users, id)
             /\ RowsOf(db.users, id) # {}
                   => \E u \in RowsOf(db.users, id) :
                        /\ RowsOf(db'.users, id) = {[u EXCEPT !.last_active = @ + 1]}
                        /\ result'.args.user.user_id = None
                              => result'.args.user.email # None
             /\ Cardinality(EmailIds(db'.users)) <= 1]_vars

\* the address typed in capitals has found the row made for it in lower case
C24_Witness ==
    /\ result.op = "create_or_get_user"
    /\ result.exc = NoExc
    /\ result.args.user.user_id = None
    /\ result.args.user.email = "Ann@X.org"
    /\ \E u \in db.users :
          u.user_id = result.ret /\ u.email = "ann@x.org" /\ u.last_active = 1

\* a handler of the analyses returns in this step, having logged its
\* "..._completed" event
LoggedCompleted ==
    /\ result.op = "none"
    /\ result'.op \in AnalysisHandlers
    /\ Len(db'.analytics) > Len(db.analytics)
    /\ db'.analytics[Len(db'.analytics)].action_type
          = EventPrefix(result'.op) \o "_completed"

\* C25 as stated: enhanced_resume_analysis, enhanced_ats_calculation and
\* enhanced_skill_gap_analysis log their "..._completed" event only when the
\* operation produced a report in that call, not when it returned a message
\* about missing input, text extraction, a role not found or an error.
C25_CompletedOnlyForReports ==
    [][LoggedCompleted => result'.ret.kind = "report"]_vars

\* C26 as stated: each enhanced_chatbot_interface call appends exactly one
\* (message, response) pair to the end of the history, leaves the earlier
\* pairs as they were and returns an empty input string, with or without a
\* user session and whether or not the database save succeeds; the context
\* of the prompt holds at most the last 3 earlier exchanges.
C26_OnePairAppended ==
    result.op = "enhanced_chatbot_interface" =>
        /\ result.ret.exc = NoExc
        /\ Len(result.ret.history) = Len(result.before) + 1
        /\ SubSeq(result.ret.history, 1, Len(result.before)) = result.before
        /\ result.ret.history[Len(result.ret.history)][1] = result.message
        /\ result.ret.input = ""
        /\ Len(result.ret.context) <= 3
        /\ \A i \in 1..Len(result.ret.context) :
              result.ret.context[i]
                = result.before[Len(result.before) - Len(result.ret.context) + i]

====
